---- MODULE Spec2Model ----
(***************************************************************************)
(* Model of the BPM agent backend: the websocket chat endpoint             *)
(* (backend/api/chat.py), the orchestrator BPMAgentService                 *)
(* (backend/services/bpm_agent.py), the Qwen language-model service        *)
(* (backend/services/ai/qwen_service.py) and the Playwright automation     *)
(* driver (backend/services/browser).                                      *)
(*                                                                         *)
(* Specifications given over the same variables:                           *)
(*   Spec            one websocket connection served by                    *)
(*                   websocket_endpoint; the session object is the         *)
(*                   UserSession row read from the database.               *)
(*   SpecAgent       a BPMAgentService instance driven directly through    *)
(*                   its public methods, with a session object that        *)
(*                   carries a target_url attribute.                       *)
(*   SpecMatcher     the field matcher and auto-fill methods called on     *)
(*                   sample page states and data.                          *)
(*   SpecBrowser     _determine_page_type on sample markup and elements.   *)
(*   SpecValidation  SmartValidationService.validate_form_data on sample   *)
(*                   forms.                                                *)
(*   SpecApi         create_session, delete_session and two websocket      *)
(*                   connections that use the same session id.             *)
(*   SpecUpload      the upload endpoints over the task_history table and  *)
(*                   the upload directory, called by two users.            *)
(***************************************************************************)
EXTENDS Integers, Sequences, FiniteSets, TLC

\* ------------------------------------------------------------------ bounds
MaxTurns == 2
MaxTokens == 2
MaxCleanup == 2
MaxKeys == 2
MaxApiTurns == 1
MaxTasks == 2

\* --------------------------------------------------------------- constants
None == "None"
SessionId == "s1"
TargetUrl == "https://example.com/form"

\* backend/services/ai/base.py IntentType
IntentType ==
    {"expense_report", "leave_request", "purchase_request", "contract_approval",
     "form_filling", "ocr_processing", "question_answering", "data_extraction",
     "unknown"}

\* Columns of the UserSession ORM class: the attributes an instance read from
\* the database has.
UserSessionColumns ==
    {"id", "user_id", "session_id", "session_name", "browser_session_data",
     "is_active", "created_at", "expires_at"}

\* Inbound messages are sequences of words.  The words stand for
\*   baoxiao = "报销", fapiao = "发票", qingjia = "请假" (keywords of the
\*   fallback classifier), name_is_zhangsan = "姓名：张三",
\*   phone_is_138 = "电话：13800138000" (phrases of the regex extractor).
MsgExpenseInvoice == <<"wo_yao", "baoxiao", "zhe_zhang", "fapiao">>
MsgLeave == <<"wo_xiang", "qingjia">>
MsgHello == <<"ni_hao">>
MsgData == <<"name_is_zhangsan", "phone_is_138">>
Messages == {MsgExpenseInvoice, MsgLeave, MsgHello, MsgData}

\* Tokens of the language-model stream; ErrText is the text
\* "...错误信息：{str(e)}" built from the exception in generate_response_stream.
Tokens == {"t1", "t2"}
ErrText == "raw_exception_text"

\* Fixed user-facing texts of error events.
GenericError == "generic_error"
ConversationApology == "conversation_apology"
QuestionApology == "question_apology"
UserTexts == {GenericError, ConversationApology, QuestionApology}

Range(s) == {s[i] : i \in 1..Len(s)}
Last(s) == s[Len(s)]

VARIABLES
    \* ---- transport and channel adapter (chat.py)
    transport,            \* "open" | "closed": the client side of the socket
    active_connections,   \* manager.active_connections: session id -> socket
    wsPc,                 \* position of websocket_endpoint
    sent,                 \* events delivered on the socket in the current turn
    sentPeer,             \* events delivered on the socket of the second connection
    peer,                 \* position of websocket_endpoint for the second connection
    closedSends,          \* send_text calls made on the closed socket
    openStreams,          \* turns whose event stream is being iterated
    turnNo,               \* number of turns dispatched
    token,                \* the token query parameter of the handshake
    closeCode,            \* code of websocket.close issued by the handshake
    message_data,         \* keys of the inbound frame of the current turn
    \* ---- orchestrator (BPMAgentService)
    session,              \* the session object: attribute name -> value
    genPc,                \* position of process_user_message_stream
    message,              \* argument of the current call
    intent_result,        \* IntentResult of the current call
    task_history,         \* the TaskHistory object of the current call
    full_response,        \* local of the streaming handlers
    llm,                  \* state of generate_response_stream
    yielded,              \* events yielded by the current call
    conversation_history, \* len(self.conversation_history)
    ai_history,           \* len(self.ai_service.conversation_history)
    extracted_data,       \* self.extracted_data, in insertion order
    current_page_state,   \* self.current_page_state
    required_fields,      \* analysis.required_fields in _handle_form_filling
    ocr_result,           \* argument of the process_ocr_result call just made
    ocr_response,         \* "type" of the result of that call
    call,                 \* last direct call of a matcher / auto-fill method
    cleanupCalls,         \* invocations of BPMAgentService.cleanup
    \* ---- automation driver (PlaywrightBrowserService)
    browser,              \* self.browser
    page,                 \* self.page
    closeCalls,           \* invocations of close_browser
    driverCalls,          \* driver methods called in the current turn
    pageLoads,            \* page loads analysed so far
    \* ---- REST endpoints and database (chat.py, upload.py)
    session_data,         \* target_url of the create_session request
    is_active,            \* is_active column of the session row
    tasks,                \* task_history table: id -> row
    files,                \* paths of the files in the upload directory
    response,             \* the last answer of an upload endpoint
    \* ---- arguments of a method called directly
    args

wsVars == <<transport, active_connections, wsPc, sent, closedSends, openStreams,
           token, closeCode, message_data, sentPeer>>
genVars == <<genPc, message, intent_result, task_history, full_response, llm,
             yielded, conversation_history, ai_history, extracted_data,
             current_page_state, required_fields>>
apiVars == <<peer, session_data, is_active, tasks, files, response, args>>
libVars == <<ocr_result, ocr_response, call, peer, session_data, is_active, tasks,
             files, response, args>>
driverVars == <<browser, page, driverCalls, pageLoads>>
vars == <<transport, active_connections, wsPc, sent, closedSends, openStreams,
          turnNo, session, genPc, message, intent_result, task_history,
          full_response, llm, yielded, conversation_history, ai_history,
          extracted_data, current_page_state, cleanupCalls, browser, page,
          closeCalls, driverCalls, pageLoads, token, closeCode, message_data,
          required_fields, ocr_result, ocr_response, call, sentPeer, peer,
          session_data, is_active, tasks, files, response, args>>

\* ------------------------------------------------------------------ events
Ev(type, kind, intent, content) ==
    [type |-> type, kind |-> kind, intent |-> intent, content |-> content,
     validation |-> None]

IsTerminal(e) == e.type \in {"message_complete", "error"}
TerminalCount(s) == Cardinality({i \in 1..Len(s) : IsTerminal(s[i])})
CarriesRawText(e) == ErrText \in Range(e.content)

NoIntent == [intent |-> None, confidence |-> 0, entities |-> <<>>, via |-> None]
NoTask == [task_status |-> None, status |-> None, saved |-> None]
NoPage == [url |-> None, title |-> None, page_type |-> None, load |-> 0,
           elements |-> <<>>, element_loads |-> <<>>]
NoCall == [fn |-> None, arg |-> None, result |-> None]
NoOcrCall == [given |-> FALSE]
NoResponse == [fn |-> None, user |-> None, file_id |-> 0, status_code |-> 0]
NoRow == [user_id |-> None, task_type |-> None, file_path |-> None,
          status |-> None, ocr_result |-> None]
NoTasks == [id \in 1..MaxTasks |-> NoRow]

\* ------------------------------------------------- language-model service
ExpenseKeywords == {"baoxiao", "fapiao", "chailv", "canfei", "jiaotongfei",
                    "zhusufei", "piaoju"}
LeaveKeywords == {"qingjia", "xiujia", "nianjia", "bingjia", "shijia"}

\* QwenAIService._fallback_intent_recognition: keyword match on the message;
\* confidence in percent.
FallbackIntentRecognition(user_input) ==
    IF Range(user_input) \cap ExpenseKeywords # {}
    THEN [intent |-> "expense_report", confidence |-> 80, entities |-> <<>>,
          via |-> "fallback"]
    ELSE IF Range(user_input) \cap LeaveKeywords # {}
    THEN [intent |-> "leave_request", confidence |-> 80, entities |-> <<>>,
          via |-> "fallback"]
    ELSE [intent |-> "unknown", confidence |-> 10, entities |-> <<>>,
          via |-> "fallback"]

\* The "entities" object of a reply, as its items: empty, or the amount of
\* the prompt's example.
EntityLists == {<<>>, <<[key |-> "amount", val |-> "1500"]>>}

\* Outcomes of the model call made by recognize_intent: the call raises, the
\* reply is not JSON, or it is a JSON object whose "intent" is an enum value,
\* is absent, or is some other string.  The confidence is in percent; 0 is
\* also the value taken when the reply has no "confidence".
ModelReplies ==
    {[kind |-> "api_error", intent |-> None, confidence |-> 0, entities |-> <<>>],
     [kind |-> "bad_json", intent |-> None, confidence |-> 0, entities |-> <<>>]}
    \cup [kind : {"json"},
          intent : IntentType \cup {"absent", "not_in_enum"},
          confidence : {0, 30, 95},
          entities : EntityLists]

\* QwenAIService.recognize_intent
RecognizeIntent(user_input, reply) ==
    IF reply.kind # "json" \/ reply.intent = "not_in_enum"
    THEN FallbackIntentRecognition(user_input)
    ELSE [intent |-> IF reply.intent = "absent" THEN "unknown" ELSE reply.intent,
          confidence |-> reply.confidence,
          entities |-> reply.entities,
          via |-> "model"]

\* ------------------------------------------------ regex data extraction
\* Words the patterns of _extract_structured_data match: category, index of
\* the pattern in the category's pattern list, captured group.
PhraseTable ==
    [w \in {"name_is_zhangsan", "wo_jiao_lisi", "phone_is_138"} |->
        CASE w = "name_is_zhangsan" -> [cat |-> "name", pat |-> 1, val |-> "zhangsan"]
          [] w = "wo_jiao_lisi" -> [cat |-> "name", pat |-> 2, val |-> "lisi"]
          [] w = "phone_is_138" -> [cat |-> "phone", pat |-> 1, val |-> "13800138000"]]

CategoryMatches(msg, cat) ==
    {i \in 1..Len(msg) : msg[i] \in DOMAIN PhraseTable /\ PhraseTable[msg[i]].cat = cat}

\* The first pattern of the category that matches anywhere in the message,
\* and its first match (re.search).
CategoryValue(msg, cat) ==
    LET m == CategoryMatches(msg, cat)
        bestPat == CHOOSE p \in {PhraseTable[msg[i]].pat : i \in m} :
                      \A i \in m : p <= PhraseTable[msg[i]].pat
        first == CHOOSE i \in m : /\ PhraseTable[msg[i]].pat = bestPat
                                  /\ \A j \in m : PhraseTable[msg[j]].pat = bestPat => i <= j
    IN PhraseTable[msg[first]].val

RECURSIVE ExtractCategories(_, _)
ExtractCategories(msg, cats) ==
    IF cats = <<>> THEN <<>>
    ELSE LET c == Head(cats)
             rest == ExtractCategories(msg, Tail(cats))
         IN IF CategoryMatches(msg, c) = {} THEN rest
            ELSE <<[key |-> c, val |-> CategoryValue(msg, c)]>> \o rest

\* BPMAgentService._extract_structured_data: the dict it returns, as the
\* sequence of its items in insertion order.
ExtractStructuredData(msg) ==
    ExtractCategories(msg, <<"name", "phone", "email", "address">>)

Keys(d) == {d[i].key : i \in 1..Len(d)}

\* dict.__setitem__: an existing key keeps its position, a new key is appended.
DictSet(d, k, v) ==
    IF k \in Keys(d)
    THEN [i \in 1..Len(d) |-> IF d[i].key = k THEN [key |-> k, val |-> v] ELSE d[i]]
    ELSE Append(d, [key |-> k, val |-> v])

\* dict.update
RECURSIVE DictUpdate(_, _)
DictUpdate(d, items) ==
    IF items = <<>> THEN d
    ELSE DictUpdate(DictSet(d, Head(items).key, Head(items).val), Tail(items))

\* ----------------------------------------------------------- page model
\* str.lower() on the names of the model's vocabulary.
Lower(s) == IF s = "Name" THEN "name" ELSE s

\* "a in b" (substring) on the lower-cased vocabulary.
InStr(a, b) ==
    \/ a = b
    \/ <<a, b>> \in {<<"name", "username">>, <<"user", "username">>,
                     <<"phone", "user phone">>, <<"user", "user phone">>,
                     <<"mail", "email">>, <<"user", "user id">>,
                     <<"id", "user id">>}

\* str.split()
SplitWords(s) ==
    IF s = "user phone" THEN {"user", "phone"}
    ELSE IF s = "user id" THEN {"user", "id"}
    ELSE {s}

Fillable == {"input", "textarea", "select"}

El(type, name, selector) ==
    [element_type |-> type, name |-> name, selector |-> selector]

\* Element lists one analysis pass (_analyze_page_elements) can return:
\* inputs, then selects, then buttons, then textareas.
PageLists ==
    << <<El("input", "Name", "e1"), El("input", "user phone", "e2"),
         El("select", "username", "e3"), El("button", "submit", "e4")>>,
       <<El("textarea", "email", "e1")>>,
       <<>> >>

\* The title and the markup of the pages of PageLists; the markup is the set
\* of the words of the HTML that matter to the page-type keywords.
PageTitles == <<"Expense form", "Contact", "Done">>
PageHtml == <<{"form"}, {"form", "Login"}, {"Success"}>>

\* str.lower() on the words of the markup.
LowerHtml(w) ==
    CASE w = "Login" -> "login"
      [] w = "Success" -> "success"
      [] OTHER -> w

\* "keyword in html_lower" for one word of the lower-cased markup.
InHtml(keyword, w) == keyword = w \/ <<keyword, w>> \in {<<"fail", "failed">>}

\* Keyword lists of _determine_page_type (denglu = "登录", mima = "密码",
\* chenggong = "成功", wancheng = "完成", cuowu = "错误", shibai = "失败").
LoginKeywords == {"login", "denglu", "password", "mima"}
SuccessKeywords == {"success", "chenggong", "complete", "wancheng"}
ErrorKeywords == {"error", "cuowu", "fail", "shibai"}

AnyKeyword(keywords, html_content) ==
    \E keyword \in keywords : \E w \in html_content : InHtml(keyword, LowerHtml(w))

FormElements(elements) ==
    {i \in 1..Len(elements) : elements[i].element_type \in {"input", "select", "textarea"}}

\* (the success keywords checked before the login keywords)
DeterminePageTypeSuccessFirst(html_content, elements) ==
    IF AnyKeyword(SuccessKeywords, html_content) THEN "success"
    ELSE IF AnyKeyword(LoginKeywords, html_content) THEN "login"
    ELSE IF AnyKeyword(ErrorKeywords, html_content) THEN "error"
    ELSE IF Cardinality(FormElements(elements)) > 2 THEN "form"
    ELSE "unknown"

\* BaseBrowserService._determine_page_type
DeterminePageType(html_content, elements) ==
    IF AnyKeyword(LoginKeywords, html_content) THEN "login"
    ELSE IF AnyKeyword(SuccessKeywords, html_content) THEN "success"
    ELSE IF AnyKeyword(ErrorKeywords, html_content) THEN "error"
    ELSE IF Cardinality(FormElements(elements)) > 2 THEN "form"
    ELSE "unknown"

\* (a state built by extending the element list of the previous state)
GetCurrentStatePatched(current_state, url, load, p) ==
    [url |-> url, title |-> PageTitles[p],
     page_type |-> DeterminePageType(PageHtml[p], PageLists[p]),
     load |-> load,
     elements |-> current_state.elements \o PageLists[p],
     element_loads |-> current_state.element_loads
                          \o [i \in 1..Len(PageLists[p]) |-> load]]

\* BaseBrowserService.get_current_state on page p, reached by page load
\* number load: a new PageState built from the url, the title, the markup
\* and the elements read from the page.  current_state is self.current_state
\* before the call; element_loads[i] is the page load element i was read from.
GetCurrentState(current_state, url, load, p) ==
    [url |-> url, title |-> PageTitles[p],
     page_type |-> DeterminePageType(PageHtml[p], PageLists[p]),
     load |-> load,
     elements |-> PageLists[p],
     element_loads |-> [i \in 1..Len(PageLists[p]) |-> load]]

\* field_mappings of _match_field_value, in dict order (keywords lower-cased).
FieldMappings ==
    << {"name", "username", "fullname", "xingming", "yonghuming"},
       {"email", "mail", "youxiang", "dianziyoujian"},
       {"phone", "tel", "mobile", "dianhua", "shouji", "lianxidianhua"},
       {"address", "addr", "dizhi", "lianxidizhi"},
       {"company", "organization", "gongsi", "danwei", "jigou"},
       {"amount", "money", "price", "jine", "jiage", "feiyong"},
       {"date", "time", "riqi", "shijian"} >>

\* One iteration of the loop over extracted_data in _match_field_value.
ItemMatches(item, field_name_lower) ==
    \/ Lower(item.key) = field_name_lower
    \/ \E g \in 1..Len(FieldMappings) :
          /\ Lower(item.key) \in FieldMappings[g]
          /\ \E keyword \in FieldMappings[g] : InStr(keyword, field_name_lower)

\* BPMAgentService._match_field_value: the value of the first item of
\* extracted_data (insertion order) that matches, or None.
MatchFieldValue(data, field_name) ==
    LET hits == {i \in 1..Len(data) : ItemMatches(data[i], Lower(field_name))}
    IN IF hits = {} THEN None
       ELSE data[CHOOSE i \in hits : \A j \in hits : i <= j].val

\* The score _find_matching_element gives one element.
MatchScore(field_name, element) ==
    LET f == Lower(field_name)
        e == Lower(element.name)
    IN IF f = e THEN 100
       ELSE IF InStr(f, e) \/ InStr(e, f) THEN 80
       ELSE IF \E word \in SplitWords(f) : InStr(word, e) THEN 60
       ELSE 0

\* (the loop keeping the last element of the best score)
RECURSIVE BestMatchLast(_, _, _, _, _)
BestMatchLast(elements, field_name, i, best_match, best_score) ==
    IF i > Len(elements) THEN [match |-> best_match, score |-> best_score]
    ELSE LET sc == IF elements[i].element_type \in Fillable
                   THEN MatchScore(field_name, elements[i]) ELSE 0
         IN IF elements[i].element_type \in Fillable /\ sc >= best_score /\ sc > 0
            THEN BestMatchLast(elements, field_name, i + 1, i, sc)
            ELSE BestMatchLast(elements, field_name, i + 1, best_match, best_score)

\* The loop of _find_matching_element from element i on.
RECURSIVE BestMatch(_, _, _, _, _)
BestMatch(elements, field_name, i, best_match, best_score) ==
    IF i > Len(elements) THEN [match |-> best_match, score |-> best_score]
    ELSE LET sc == IF elements[i].element_type \in Fillable
                   THEN MatchScore(field_name, elements[i]) ELSE 0
         IN IF elements[i].element_type \in Fillable /\ sc > best_score
            THEN BestMatch(elements, field_name, i + 1, i, sc)
            ELSE BestMatch(elements, field_name, i + 1, best_match, best_score)

\* BPMAgentService._find_matching_element: index of the element, 0 for None.
FindMatchingElement(page_state, field_name) ==
    IF page_state = NoPage THEN 0
    ELSE LET r == BestMatch(page_state.elements, field_name, 1, 0, 0)
         IN IF r.score > 50 THEN r.match ELSE 0

\* Outcome of one input_text / select_option call of the Playwright driver:
\* it returns True, or catches its own exception and returns False.
FillOutcomes == {"ok", "fail"}

FillCall(element) ==
    IF element.element_type = "select" THEN "select_option" ELSE "input_text"

\* BPMAgentService._auto_fill_form: outcomes[i] is the outcome of the fill
\* call made for element i, when one is made.
RECURSIVE AutoFillLoop(_, _, _, _, _)
AutoFillLoop(elements, data, outcomes, i, acc) ==
    IF i > Len(elements) THEN acc
    ELSE LET el == elements[i]
             v == MatchFieldValue(data, el.name)
         IN IF el.element_type \in Fillable /\ v # None /\ v # ""
            THEN AutoFillLoop(elements, data, outcomes, i + 1,
                   IF outcomes[i] = "ok"
                   THEN [acc EXCEPT !.filled_fields = Append(@, [field |-> el.name, value |-> v]),
                                    !.calls = @ \cup {FillCall(el)}]
                   ELSE [acc EXCEPT !.failed_fields = Append(@, [field |-> el.name,
                                        reason |-> IF outcomes[i] = "fail" THEN "fill_failed"
                                                   ELSE "fill_exception"]),
                                    !.calls = @ \cup {FillCall(el)}])
            ELSE AutoFillLoop(elements, data, outcomes, i + 1, acc)

\* (the success flag computed from the filled list)
AutoFillFormAnyFilled(page_state, data, outcomes) ==
    LET r == AutoFillLoop(page_state.elements, data, outcomes, 1,
                          [filled_fields |-> <<>>, failed_fields |-> <<>>, calls |-> {}])
    IN [success |-> Len(r.filled_fields) > 0, filled_fields |-> r.filled_fields,
        failed_fields |-> r.failed_fields, calls |-> r.calls]

\* With no page state the loop header raises AttributeError and the outer
\* except branch returns the failure entry "unknown".
AutoFillForm(page_state, data, outcomes) ==
    IF page_state = NoPage
    THEN [success |-> FALSE, filled_fields |-> <<>>,
          failed_fields |-> <<[field |-> "unknown", reason |-> "exception"]>>,
          calls |-> {}]
    ELSE LET r == AutoFillLoop(page_state.elements, data, outcomes, 1,
                    [filled_fields |-> <<>>, failed_fields |-> <<>>, calls |-> {}])
         IN [success |-> Len(r.failed_fields) = 0, filled_fields |-> r.filled_fields,
             failed_fields |-> r.failed_fields, calls |-> r.calls]

\* BPMAgentService._auto_fill_form_with_data: items is the given dict in
\* insertion order, outcomes[i] the outcome of the fill call made for item i.
RECURSIVE FillWithDataLoop(_, _, _, _, _)
FillWithDataLoop(page_state, items, outcomes, i, acc) ==
    IF i > Len(items) THEN acc
    ELSE LET m == FindMatchingElement(page_state, items[i].key)
         IN IF m = 0
            THEN FillWithDataLoop(page_state, items, outcomes, i + 1,
                   [acc EXCEPT !.failed_fields = Append(@, [field |-> items[i].key,
                                                           reason |-> "no_matching_element"])])
            ELSE FillWithDataLoop(page_state, items, outcomes, i + 1,
                   IF outcomes[i] = "ok"
                   THEN [acc EXCEPT !.filled_fields = Append(@, [field |-> items[i].key,
                                                               value |-> items[i].val]),
                                    !.calls = @ \cup {FillCall(page_state.elements[m])}]
                   ELSE [acc EXCEPT !.failed_fields = Append(@, [field |-> items[i].key,
                                        reason |-> IF outcomes[i] = "fail" THEN "fill_failed"
                                                   ELSE "fill_exception"]),
                                    !.calls = @ \cup {FillCall(page_state.elements[m])}])

AutoFillFormWithData(page_state, items, outcomes) ==
    IF page_state = NoPage
    THEN [success |-> FALSE, filled_fields |-> <<>>,
          failed_fields |-> <<[field |-> "page", reason |-> "page_not_loaded"]>>,
          calls |-> {}]
    ELSE LET r == FillWithDataLoop(page_state, items, outcomes, 1,
                    [filled_fields |-> <<>>, failed_fields |-> <<>>, calls |-> {}])
         IN [success |-> Len(r.failed_fields) = 0, filled_fields |-> r.filled_fields,
             failed_fields |-> r.failed_fields, calls |-> r.calls]

\* ------------------------------------------------------------ orchestrator
NonStreamIntents == {"form_filling", "ocr_processing", "data_extraction"}

\* message_type of the events of the two streaming handlers.
StreamKind(intent) ==
    IF intent = "question_answering" THEN "question_answer" ELSE "conversation"

\* Apology text of the except branch of the two streaming handlers.
StreamApology(intent) ==
    IF intent = "question_answering" THEN QuestionApology ELSE ConversationApology

\* {"type": "message", "data": result}: the wrapper _handle_intent_stream
\* yields for the non-streaming handlers; kind is result["type"].
ResultEvent(result_type) == Ev("message", result_type, None, <<>>)

callerVars == <<turnNo, session, cleanupCalls, closeCalls, ocr_result,
               ocr_response, call, peer, session_data, is_active, tasks, files,
               response, args>>

\* process_user_message_stream up to its first yield: history append, Task
\* Record creation and commit, classification, the intent event.  commit1 is
\* the outcome of the commit of the new record; when it raises, the except
\* branch marks the record failed, commits again (commit2) and yields the
\* generic error event.  The status column is filled with its default
\* "pending" by the insert.
GenClassify ==
    /\ genPc = "start"
    /\ conversation_history' = conversation_history + 1
    /\ \E commit1 \in BOOLEAN :
          IF commit1
          THEN \E reply \in ModelReplies :
                  /\ task_history' = [task_status |-> "processing",
                                      status |-> "pending", saved |-> "pending"]
                  /\ intent_result' = RecognizeIntent(message, reply)
                  /\ yielded' = Append(yielded,
                                  Ev("intent", "", intent_result'.intent, <<>>))
                  /\ genPc' = "intent"
          ELSE \E commit2 \in BOOLEAN :
                  /\ task_history' = [task_status |-> "processing",
                                      status |-> "failed",
                                      saved |-> IF commit2 THEN "failed" ELSE None]
                  /\ intent_result' = intent_result
                  /\ IF commit2
                     THEN /\ yielded' = Append(yielded,
                                          Ev("error", "", None, <<GenericError>>))
                          /\ genPc' = "finishing"
                     ELSE /\ yielded' = yielded
                          /\ genPc' = "raised"
    /\ UNCHANGED <<message, full_response, llm, ai_history, extracted_data,
                   current_page_state, required_fields>>
    /\ UNCHANGED driverVars
    /\ UNCHANGED callerVars

\* Outcomes of start_browser: everything started; the browser launched but
\* no page was created; nothing launched.
StartOutcomes == {"ok", "no_page", "fail"}

\* Field names the page analysis can report as required.
RequiredCandidates == {"name", "email"}

\* The lists analysis.required_fields can be: the names of the fields the
\* analysis marks required, in the order of its form_fields.
RequiredFieldLists ==
    {r \in UNION {[1..n -> RequiredCandidates] : n \in 0..Cardinality(RequiredCandidates)} :
        \A i, j \in 1..Len(r) : r[i] = r[j] => i = j}

\* missing_fields of _handle_form_filling: the required fields that are not
\* keys of extracted_data, in the order of required_fields.
MissingFieldsUnfiltered(required, data) == required
MissingFields(required, data) ==
    SelectSeq(required, LAMBDA field : field \notin Keys(data))

\* The event wrapping the "request_data" result; its content is the
\* "required_fields" entry of the result's page_analysis action.
RequestDataEvent(missing_fields) == Ev("message", "request_data", None, missing_fields)

\* The form_filling branch: _handle_form_filling and the event wrapping its
\* result.  Reading self.session.target_url raises AttributeError when the
\* session object has no such attribute; the except branch of the handler
\* turns every exception into an "error" result.
GenFormFilling ==
    /\ genPc = "intent"
    /\ intent_result.intent = "form_filling"
    /\ IF "target_url" \notin DOMAIN session
       THEN /\ yielded' = Append(yielded, ResultEvent("error"))
            /\ UNCHANGED <<current_page_state, required_fields, browser, page,
                           driverCalls, pageLoads>>
       ELSE IF session["target_url"] = None
       THEN /\ yielded' = Append(yielded, ResultEvent("request_url"))
            /\ UNCHANGED <<current_page_state, required_fields, browser, page,
                           driverCalls, pageLoads>>
       ELSE \E start \in StartOutcomes, nav \in BOOLEAN, state \in {"ok", "raise"},
               p \in 1..Len(PageLists), required \in RequiredFieldLists :
             \E outcomes \in [1..Len(GetCurrentState(current_page_state,
                                    session["target_url"], pageLoads + 1, p).elements)
                                -> FillOutcomes] :
               LET started == browser = None
                   browser1 == IF started /\ start # "fail" THEN "Browser" ELSE browser
                   page1 == IF started /\ start = "ok" THEN "Page" ELSE page
                   calls1 == driverCalls
                               \cup (IF started THEN {"start_browser"} ELSE {})
                               \cup {"navigate_to"}
                   navigated == page1 # None /\ nav
                   new_state == GetCurrentState(current_page_state,
                                   session["target_url"], pageLoads + 1, p)
                   missing == MissingFields(required, extracted_data)
                   fill == AutoFillForm(new_state, extracted_data, outcomes)
               IN /\ browser' = browser1
                  /\ page' = page1
                  /\ IF ~navigated
                     THEN /\ yielded' = Append(yielded, ResultEvent("error"))
                          /\ driverCalls' = calls1
                          /\ UNCHANGED <<current_page_state, required_fields, pageLoads>>
                     ELSE IF state = "raise"
                     THEN /\ yielded' = Append(yielded, ResultEvent("error"))
                          /\ driverCalls' = calls1 \cup {"get_current_state"}
                          /\ UNCHANGED <<current_page_state, required_fields, pageLoads>>
                     ELSE /\ current_page_state' = new_state
                          /\ required_fields' = required
                          /\ pageLoads' = pageLoads + 1
                          /\ IF missing # <<>>
                             THEN /\ yielded' = Append(yielded, RequestDataEvent(missing))
                                  /\ driverCalls' = calls1 \cup {"get_current_state"}
                             ELSE /\ yielded' = Append(yielded, ResultEvent(
                                         IF fill.success THEN "success" ELSE "partial_success"))
                                  /\ driverCalls' = calls1 \cup {"get_current_state"}
                                                      \cup fill.calls
    /\ genPc' = "finishing"
    /\ UNCHANGED <<message, intent_result, task_history, full_response, llm,
                   conversation_history, ai_history, extracted_data>>
    /\ UNCHANGED callerVars

\* The ocr_processing branch: _handle_ocr_request.
GenOcrRequest ==
    /\ genPc = "intent"
    /\ intent_result.intent = "ocr_processing"
    /\ yielded' = Append(yielded, ResultEvent("request_upload"))
    /\ genPc' = "finishing"
    /\ UNCHANGED <<message, intent_result, task_history, full_response, llm,
                   conversation_history, ai_history, extracted_data,
                   current_page_state, required_fields>>
    /\ UNCHANGED driverVars
    /\ UNCHANGED callerVars

\* The data_extraction branch: _handle_data_extraction.
GenDataExtraction ==
    /\ genPc = "intent"
    /\ intent_result.intent = "data_extraction"
    /\ LET extracted_info == ExtractStructuredData(message)
       IN IF extracted_info = <<>>
          THEN /\ yielded' = Append(yielded, ResultEvent("request_clarification"))
               /\ UNCHANGED <<extracted_data, driverCalls>>
          ELSE /\ extracted_data' = DictUpdate(extracted_data, extracted_info)
               /\ IF current_page_state = NoPage
                  THEN /\ yielded' = Append(yielded, ResultEvent("data_stored"))
                       /\ UNCHANGED driverCalls
                  ELSE \E outcomes \in [1..Len(extracted_info) -> FillOutcomes] :
                          LET fill == AutoFillFormWithData(current_page_state,
                                                           extracted_info, outcomes)
                          IN /\ yielded' = Append(yielded, ResultEvent(
                                    IF fill.success THEN "success" ELSE "partial_success"))
                             /\ driverCalls' = driverCalls \cup fill.calls
    /\ genPc' = "finishing"
    /\ UNCHANGED <<message, intent_result, task_history, full_response, llm,
                   conversation_history, ai_history, current_page_state,
                   required_fields>>
    /\ UNCHANGED <<browser, page, pageLoads>>
    /\ UNCHANGED callerVars

\* The message_chunk event the streaming handlers yield for one chunk of
\* generate_response_stream.
ChunkEventEmpty(kind, chunk) == Ev("message_chunk", kind, None, <<>>)
ChunkEvent(kind, chunk) == Ev("message_chunk", kind, None, <<chunk>>)

\* One step of the loop over generate_response_stream in
\* _handle_question_answering_stream / _handle_general_conversation_stream
\* (every intent that is not one of the three above).  The model stream
\* gives a token, ends, or raises; generate_response_stream catches the
\* exception and yields one more chunk, the text built from str(e), then
\* ends.  When the stream has ended the handler yields message_complete.
GenStream ==
    /\ genPc \in {"intent", "streaming"}
    /\ intent_result.intent \notin NonStreamIntents
    /\ \E item \in Tokens \cup {"RAISE", "DONE"} :
          LET kind == StreamKind(intent_result.intent)
          IN IF llm # "ended" /\ item \in Tokens
             THEN /\ Len(full_response) < MaxTokens
                  /\ full_response' = Append(full_response, item)
                  /\ yielded' = Append(yielded, ChunkEvent(kind, item))
                  /\ llm' = "open"
                  /\ genPc' = "streaming"
                  /\ UNCHANGED ai_history
             ELSE IF llm # "ended" /\ item = "RAISE"
             THEN /\ full_response' = Append(full_response, ErrText)
                  /\ yielded' = Append(yielded, ChunkEvent(kind, ErrText))
                  /\ llm' = "ended"
                  /\ genPc' = "streaming"
                  /\ UNCHANGED ai_history
             ELSE /\ item = "DONE"
                  /\ ai_history' = IF llm # "ended" THEN ai_history + 2 ELSE ai_history
                  /\ yielded' = Append(yielded,
                        Ev("message_complete", kind, intent_result.intent, full_response))
                  /\ llm' = "ended"
                  /\ genPc' = "complete"
                  /\ UNCHANGED full_response
    /\ UNCHANGED <<message, intent_result, task_history, conversation_history,
                   extracted_data, current_page_state, required_fields>>
    /\ UNCHANGED driverVars
    /\ UNCHANGED callerVars

\* The code after the message_complete yield of the streaming handlers: the
\* general handler appends the reply to the conversation history, both set the
\* Task Record to completed and commit; a raising commit is caught by the
\* handler's except branch, which yields an error event.
GenAfterComplete ==
    /\ genPc = "complete"
    /\ conversation_history' =
          IF intent_result.intent = "question_answering" THEN conversation_history
          ELSE conversation_history + 1
    /\ \E commit \in BOOLEAN :
          /\ task_history' = [task_history EXCEPT !.status = "completed",
                                 !.saved = IF commit THEN "completed" ELSE @]
          /\ IF commit
             THEN /\ genPc' = "done"
                  /\ yielded' = yielded
             ELSE /\ genPc' = "finishing"
                  /\ yielded' = Append(yielded, Ev("error", "", None,
                                         <<StreamApology(intent_result.intent)>>))
    /\ UNCHANGED <<message, intent_result, full_response, llm, ai_history,
                   extracted_data, current_page_state, required_fields>>
    /\ UNCHANGED driverVars
    /\ UNCHANGED callerVars

\* The generator is resumed after its last yield and returns.
GenFinish ==
    /\ genPc = "finishing"
    /\ genPc' = "done"
    /\ UNCHANGED <<message, intent_result, task_history, full_response, llm,
                   yielded, conversation_history, ai_history, extracted_data,
                   current_page_state, required_fields>>
    /\ UNCHANGED driverVars
    /\ UNCHANGED callerVars

\* --------------------------------------------------------- channel adapter
\* The sockets: "ws1" is the connection whose turns are followed, "ws2" a
\* second connection opened for the same session id.
NoConnections == [s \in {SessionId} |-> None]

\* "session_id in self.active_connections"
Connected(session_id) == active_connections[session_id] # None

\* The assignment of ConnectionManager.connect.
ManagerConnect(session_id, websocket) ==
    [active_connections EXCEPT ![session_id] = websocket]

\* ConnectionManager.disconnect
ManagerDisconnect(session_id) == [active_connections EXCEPT ![session_id] = None]

\* ConnectionManager.send_message: nothing is sent when the session id is not
\* registered; the event goes to the socket registered under the session id,
\* and a send that raises (the socket is closed) removes the registration.
\* base is the sequence of events delivered so far in the turn.
Deliver(base, e) ==
    IF ~Connected(SessionId)
    THEN /\ sent' = base
         /\ UNCHANGED <<active_connections, closedSends, sentPeer>>
    ELSE IF active_connections[SessionId] = "ws1"
    THEN IF transport = "open"
         THEN /\ sent' = Append(base, e)
              /\ UNCHANGED <<active_connections, closedSends, sentPeer>>
         ELSE /\ sent' = base
              /\ active_connections' = ManagerDisconnect(SessionId)
              /\ closedSends' = closedSends + 1
              /\ UNCHANGED sentPeer
    ELSE IF peer = "recv"
         THEN /\ sentPeer' = Append(sentPeer, e)
              /\ sent' = base
              /\ UNCHANGED <<active_connections, closedSends>>
         ELSE /\ sent' = base
              /\ active_connections' = ManagerDisconnect(SessionId)
              /\ UNCHANGED <<closedSends, sentPeer>>

\* The conversion of an orchestrator event to a websocket message in
\* websocket_endpoint.
ToWs(e) ==
    IF e.type = "message_chunk" THEN Ev("message_chunk", e.kind, None, e.content)
    ELSE IF e.type = "message_complete"
    THEN [Ev("message_complete", "", e.intent, e.content)
             EXCEPT !.validation = e.validation]
    ELSE IF e.type = "error" THEN Ev("error", "", None, e.content)
    ELSE Ev(e.type, e.kind, e.intent, e.content)

\* The validation step of the "async for" body: when the inbound frame has a
\* form_data key and the event is message_complete, the results and summary
\* of SmartValidationService are stored in the event's data.
AttachValidation(frame_keys, e) ==
    IF "form_data" \in frame_keys /\ e.type = "message_complete"
    THEN [e EXCEPT !.validation = "results_and_summary"]
    ELSE e

\* Where websocket_endpoint stands after it has dispatched a turn: inside the
\* "async for" over the turn's event stream.
AfterDispatchPcSpawned == "recv"
AfterDispatchPc == "stream"

\* BPMAgentService.cleanup with PlaywrightBrowserService.close_browser:
\* close_browser is called when self.browser is set, and leaves it set.
Cleanup ==
    /\ cleanupCalls' = cleanupCalls + 1
    /\ closeCalls' = IF browser # None THEN closeCalls + 1 ELSE closeCalls

\* The finally block of websocket_endpoint.
Finalize ==
    /\ Cleanup
    /\ active_connections' = ManagerDisconnect(SessionId)
    /\ wsPc' = "done"

\* The token query parameters a handshake can carry.
HandshakeTokens == {None, "invalid", "valid"}

\* The code of the websocket.close call the handshake makes for each cause
\* of rejection.
HandshakeCloseCode(cause) ==
    CASE cause = "missing_token" -> 4001
      [] cause = "invalid_token" -> 4001
      [] cause = "unknown_session" -> 4004

WelcomeMessage == Ev("message", "welcome", None, <<>>)

\* websocket_endpoint up to the receive loop: the token checks, then
\* manager.connect (accept and registration), then the lookup of the
\* session row, the construction of BPMAgentService and the welcome message.
\* verify is the outcome of verify_token_string for a token that is not
\* valid (it returns None or raises), found the outcome of the lookup.
WsHandshake ==
    /\ wsPc = "handshake"
    /\ \E t \in HandshakeTokens, verify \in {"none", "raise"}, found \in BOOLEAN :
          /\ token' = t
          /\ IF t = None
             THEN /\ closeCode' = HandshakeCloseCode("missing_token")
                  /\ wsPc' = "rejected"
                  /\ transport' = "closed"
                  /\ UNCHANGED <<active_connections, sent>>
             ELSE IF t = "invalid"
             THEN /\ closeCode' = HandshakeCloseCode("invalid_token")
                  /\ wsPc' = "rejected"
                  /\ transport' = "closed"
                  /\ UNCHANGED <<active_connections, sent>>
             ELSE /\ active_connections' = ManagerConnect(SessionId, "ws1")
                  /\ IF ~found
                     THEN /\ closeCode' = HandshakeCloseCode("unknown_session")
                          /\ wsPc' = "rejected"
                          /\ transport' = "closed"
                          /\ UNCHANGED sent
                     ELSE /\ sent' = <<WelcomeMessage>>
                          /\ wsPc' = "recv"
                          /\ UNCHANGED <<closeCode, transport>>
    /\ UNCHANGED <<closedSends, openStreams, message_data, sentPeer>>
    /\ UNCHANGED genVars
    /\ UNCHANGED driverVars
    /\ UNCHANGED callerVars

\* The client closes the connection.
ClientClose ==
    /\ transport = "open"
    /\ wsPc \in {"recv", "stream"}
    /\ transport' = "closed"
    /\ UNCHANGED <<active_connections, wsPc, sent, closedSends, openStreams,
                   token, closeCode, message_data, sentPeer>>
    /\ UNCHANGED genVars
    /\ UNCHANGED driverVars
    /\ UNCHANGED callerVars

\* receive_text raises WebSocketDisconnect.
WsDisconnect ==
    /\ wsPc = "recv"
    /\ transport = "closed"
    /\ Finalize
    /\ UNCHANGED <<transport, sent, closedSends, openStreams, token, closeCode,
                   message_data, sentPeer>>
    /\ UNCHANGED genVars
    /\ UNCHANGED driverVars
    /\ UNCHANGED <<turnNo, session>>
    /\ UNCHANGED libVars

\* A frame that json.loads rejects, or whose JSON value is not an object (the
\* .get call raises): the exception is raised outside the per-turn try and is
\* caught by the handler of the whole loop.
WsReceiveBadFrame ==
    /\ wsPc = "recv"
    /\ transport = "open"
    /\ \E frame \in {"invalid_json", "not_an_object"} : Finalize
    /\ UNCHANGED <<transport, sent, closedSends, openStreams, token, closeCode,
                   message_data, sentPeer>>
    /\ UNCHANGED genVars
    /\ UNCHANGED driverVars
    /\ UNCHANGED <<turnNo, session>>
    /\ UNCHANGED libVars

\* A frame with no message, or an empty one: "continue".
WsReceiveEmpty ==
    /\ wsPc = "recv"
    /\ transport = "open"
    /\ UNCHANGED vars

\* Keys of the JSON object of an inbound frame that carries a message.
FrameKeys == {{"message"}, {"message", "form_data"}}

\* A frame with a message: the status message is sent and the turn is
\* dispatched to process_user_message_stream.
WsReceiveText ==
    /\ wsPc = "recv"
    /\ transport = "open"
    /\ turnNo < MaxTurns
    /\ \E m \in Messages : message' = m
    /\ \E frame_keys \in FrameKeys : message_data' = frame_keys
    /\ turnNo' = turnNo + 1
    /\ Deliver(<<>>, Ev("status", "", None, <<>>))
    /\ genPc' = "start"
    /\ intent_result' = NoIntent
    /\ task_history' = NoTask
    /\ full_response' = <<>>
    /\ llm' = "idle"
    /\ yielded' = <<>>
    /\ driverCalls' = {}
    /\ required_fields' = <<>>
    /\ openStreams' = openStreams \cup {turnNo'}
    /\ wsPc' = AfterDispatchPc
    /\ UNCHANGED <<transport, token, closeCode, conversation_history, ai_history,
                   extracted_data, current_page_state, browser, page, pageLoads,
                   session, cleanupCalls, closeCalls>>
    /\ UNCHANGED libVars

\* The body of the "async for" for the value the generator just produced: an
\* event is converted and sent; the end of the stream leaves the loop; an
\* exception raised by the generator is answered with the generic error.
AfterPull ==
    /\ IF genPc' = "raised"
       THEN /\ Deliver(sent, Ev("error", "", None, <<GenericError>>))
            /\ wsPc' = "recv"
            /\ openStreams' = openStreams \ {turnNo}
       ELSE IF genPc' = "done"
       THEN /\ wsPc' = "recv"
            /\ openStreams' = openStreams \ {turnNo}
            /\ UNCHANGED <<sent, active_connections, closedSends, sentPeer>>
       ELSE /\ Deliver(sent, ToWs(AttachValidation(message_data, Last(yielded'))))
            /\ wsPc' = "stream"
            /\ UNCHANGED openStreams
    /\ UNCHANGED <<transport, token, closeCode, message_data>>

WsClassify == wsPc = "stream" /\ GenClassify /\ AfterPull
WsFormFilling == wsPc = "stream" /\ GenFormFilling /\ AfterPull
WsOcrRequest == wsPc = "stream" /\ GenOcrRequest /\ AfterPull
WsDataExtraction == wsPc = "stream" /\ GenDataExtraction /\ AfterPull
WsStream == wsPc = "stream" /\ GenStream /\ AfterPull
WsAfterComplete == wsPc = "stream" /\ GenAfterComplete /\ AfterPull
WsFinish == wsPc = "stream" /\ GenFinish /\ AfterPull

\* The UserSession row websocket_endpoint reads from the database.
SessionRow == [a \in UserSessionColumns |-> IF a = "session_id" THEN SessionId ELSE a]

InitCommon ==
    /\ sent = <<>>
    /\ closedSends = 0
    /\ openStreams = {}
    /\ turnNo = 0
    /\ genPc = "none"
    /\ message = <<>>
    /\ intent_result = NoIntent
    /\ task_history = NoTask
    /\ full_response = <<>>
    /\ llm = "idle"
    /\ yielded = <<>>
    /\ conversation_history = 0
    /\ ai_history = 0
    /\ required_fields = <<>>
    /\ cleanupCalls = 0
    /\ browser = None
    /\ page = None
    /\ closeCalls = 0
    /\ driverCalls = {}
    /\ pageLoads = 0
    /\ token = None
    /\ closeCode = 0
    /\ message_data = {}
    /\ ocr_result = NoOcrCall
    /\ ocr_response = None
    /\ call = NoCall
    /\ sentPeer = <<>>
    /\ peer = "none"
    /\ session_data = None
    /\ is_active = TRUE
    /\ tasks = NoTasks
    /\ files = {}
    /\ response = NoResponse

\* A client has opened a websocket to /ws/{session_id}; websocket_endpoint
\* is about to run.  BPMAgentService.__init__ leaves extracted_data empty
\* and current_page_state unset.
Init ==
    /\ InitCommon
    /\ extracted_data = <<>>
    /\ current_page_state = NoPage
    /\ transport = "open"
    /\ active_connections = NoConnections
    /\ wsPc = "handshake"
    /\ session = SessionRow
    /\ args = None

Next ==
    \/ WsHandshake
    \/ ClientClose
    \/ WsDisconnect
    \/ WsReceiveBadFrame
    \/ WsReceiveEmpty
    \/ WsReceiveText
    \/ WsClassify
    \/ WsFormFilling
    \/ WsOcrRequest
    \/ WsDataExtraction
    \/ WsStream
    \/ WsAfterComplete
    \/ WsFinish

Spec == Init /\ [][Next]_vars

\* ------------------------------------------- the orchestrator used directly
\* A caller starts process_user_message_stream when no call is being
\* iterated.
AgentCall ==
    /\ wsPc = "direct"
    /\ genPc \in {"none", "done", "raised"}
    /\ turnNo < MaxTurns
    /\ \E m \in Messages : message' = m
    /\ turnNo' = turnNo + 1
    /\ genPc' = "start"
    /\ intent_result' = NoIntent
    /\ task_history' = NoTask
    /\ full_response' = <<>>
    /\ llm' = "idle"
    /\ yielded' = <<>>
    /\ driverCalls' = {}
    /\ required_fields' = <<>>
    /\ UNCHANGED wsVars
    /\ ocr_result' = NoOcrCall
    /\ ocr_response' = None
    /\ UNCHANGED <<conversation_history, ai_history, extracted_data,
                   current_page_state, browser, page, pageLoads, session,
                   cleanupCalls, closeCalls, call>>
    /\ UNCHANGED apiVars

AgentClassify == wsPc = "direct" /\ GenClassify /\ UNCHANGED wsVars
AgentFormFilling == wsPc = "direct" /\ GenFormFilling /\ UNCHANGED wsVars
AgentOcrRequest == wsPc = "direct" /\ GenOcrRequest /\ UNCHANGED wsVars
AgentDataExtraction == wsPc = "direct" /\ GenDataExtraction /\ UNCHANGED wsVars
AgentStream == wsPc = "direct" /\ GenStream /\ UNCHANGED wsVars
AgentAfterComplete == wsPc = "direct" /\ GenAfterComplete /\ UNCHANGED wsVars
AgentFinish == wsPc = "direct" /\ GenFinish /\ UNCHANGED wsVars

\* Attributes of the OCRResult model.
OCRResultFields ==
    {"success", "error_message", "error", "data", "invoice_type",
     "invoice_number", "invoice_date", "total_amount", "tax_amount", "items",
     "seller_name", "seller_tax_id", "buyer_name", "buyer_tax_id",
     "raw_result", "confidence"}

\* Attributes process_ocr_result reads to build ocr_data, in order.
OcrDataReads ==
    <<"invoice_number", "invoice_date", "invoice_type", "total_amount",
      "tax_amount", "net_amount", "seller_name", "seller_tax_id", "buyer_name",
      "buyer_tax_id", "items">>

\* Arguments of process_ocr_result: None, a failed result, or a successful
\* result; data holds the attributes of OcrDataReads that are set.
OcrResults ==
    {[given |-> TRUE, present |-> FALSE, success |-> FALSE, data |-> <<>>],
     [given |-> TRUE, present |-> TRUE, success |-> FALSE, data |-> <<>>]}
    \cup [given : {TRUE}, present : {TRUE}, success : {TRUE},
          data : {<<>>,
                  <<[key |-> "invoice_number", val |-> "INV1"]>>,
                  <<[key |-> "invoice_number", val |-> "INV2"],
                    [key |-> "total_amount", val |-> "100.0"]>>}]

\* BPMAgentService.process_ocr_result.  Reading an attribute the OCRResult
\* model does not have raises AttributeError, which the except branch turns
\* into an "error" result.
AgentProcessOcrResult ==
    /\ wsPc = "direct"
    /\ genPc \in {"none", "done", "raised"}
    /\ \E r \in OcrResults : \E outcomes \in [1..Len(r.data) -> FillOutcomes] :
          /\ ocr_result' = r
          /\ IF ~r.present \/ ~r.success
             THEN /\ ocr_response' = "error"
                  /\ UNCHANGED <<extracted_data, driverCalls>>
             ELSE IF \E i \in 1..Len(OcrDataReads) : OcrDataReads[i] \notin OCRResultFields
             THEN /\ ocr_response' = "error"
                  /\ UNCHANGED <<extracted_data, driverCalls>>
             ELSE IF r.data = <<>>
             THEN /\ ocr_response' = "warning"
                  /\ UNCHANGED <<extracted_data, driverCalls>>
             ELSE /\ extracted_data' = DictUpdate(extracted_data, r.data)
                  /\ IF current_page_state = NoPage
                     THEN /\ ocr_response' = "success"
                          /\ UNCHANGED driverCalls
                     ELSE LET fill == AutoFillFormWithData(current_page_state, r.data,
                                                          outcomes)
                          IN /\ ocr_response' = IF fill.success THEN "success"
                                                ELSE "partial_success"
                             /\ driverCalls' = driverCalls \cup fill.calls
    /\ UNCHANGED wsVars
    /\ UNCHANGED <<genPc, message, intent_result, task_history, full_response, llm,
                   yielded, conversation_history, ai_history, current_page_state,
                   required_fields>>
    /\ UNCHANGED <<browser, page, pageLoads>>
    /\ UNCHANGED <<turnNo, session, cleanupCalls, closeCalls, call>>
    /\ UNCHANGED apiVars

\* A caller invokes BPMAgentService.cleanup.
AgentCleanup ==
    /\ wsPc = "direct"
    /\ genPc \in {"none", "done", "raised"}
    /\ cleanupCalls < MaxCleanup
    /\ Cleanup
    /\ UNCHANGED wsVars
    /\ UNCHANGED genVars
    /\ UNCHANGED driverVars
    /\ UNCHANGED <<turnNo, session>>
    /\ UNCHANGED libVars

\* A BPMAgentService constructed on a session object that has a target_url
\* attribute, unset or set.
InitAgent ==
    /\ InitCommon
    /\ extracted_data = <<>>
    /\ current_page_state = NoPage
    /\ transport = "none"
    /\ active_connections = NoConnections
    /\ wsPc = "direct"
    /\ args = None
    /\ \E url \in {None, TargetUrl} :
          session = [a \in UserSessionColumns \cup {"target_url"} |->
                       IF a = "target_url" THEN url
                       ELSE IF a = "session_id" THEN SessionId ELSE a]

NextAgent ==
    \/ AgentCall
    \/ AgentClassify
    \/ AgentFormFilling
    \/ AgentOcrRequest
    \/ AgentDataExtraction
    \/ AgentStream
    \/ AgentAfterComplete
    \/ AgentFinish
    \/ AgentProcessOcrResult
    \/ AgentCleanup

SpecAgent == InitAgent /\ [][NextAgent]_vars

\* ----------------------------------- the matcher and auto-fill methods alone
\* Keys of the extracted data and the values stored under them.
MatcherKeys == {"name", "username", "phone", "email"}

SampleValue(k) ==
    CASE k = "name" -> "zhangsan"
      [] k = "username" -> "zs01"
      [] k = "phone" -> "13800138000"
      [] k = "email" -> "zs@example.com"

\* The dicts of at most MaxKeys of these keys, in every insertion order.
DataDicts ==
    {[i \in 1..Len(ks) |-> [key |-> ks[i], val |-> SampleValue(ks[i])]] :
        ks \in {q \in UNION {[1..n -> MatcherKeys] : n \in 0..MaxKeys} :
                  \A i, j \in 1..Len(q) : q[i] = q[j] => i = j}}

\* The page states: none, or one of the element lists.
PageStates ==
    {NoPage} \cup {GetCurrentState(NoPage, TargetUrl, 1, p) : p \in 1..Len(PageLists)}

\* Names given to the two matchers: element names and field names.
ElementNames ==
    UNION {{PageLists[p][i].name : i \in 1..Len(PageLists[p])} : p \in 1..Len(PageLists)}
FieldNames == MatcherKeys \cup {"user phone", "user id"}

MatcherIdle == /\ wsPc = "library"
               /\ UNCHANGED wsVars
               /\ UNCHANGED genVars
               /\ UNCHANGED driverVars
               /\ UNCHANGED <<turnNo, session, cleanupCalls, closeCalls, ocr_result,
                              ocr_response>>
               /\ UNCHANGED apiVars

\* _match_field_value(field_name, element_type)
MatcherMatchFieldValue ==
    /\ MatcherIdle
    /\ \E field_name \in ElementNames :
          call' = [fn |-> "_match_field_value", arg |-> field_name,
                   result |-> MatchFieldValue(extracted_data, field_name)]

\* _find_matching_element(field_name)
MatcherFindMatchingElement ==
    /\ MatcherIdle
    /\ \E field_name \in FieldNames :
          call' = [fn |-> "_find_matching_element", arg |-> field_name,
                   result |-> FindMatchingElement(current_page_state, field_name)]

\* _auto_fill_form(analysis); arg is the outcome of the fill call made for
\* each element.
MatcherAutoFillForm ==
    /\ MatcherIdle
    /\ \E outcomes \in [1..Len(current_page_state.elements) -> FillOutcomes] :
          call' = [fn |-> "_auto_fill_form", arg |-> outcomes,
                   result |-> AutoFillForm(current_page_state, extracted_data, outcomes)]

\* _auto_fill_form_with_data(data); arg is the data and the outcome of the
\* fill call made for each of its items.
MatcherAutoFillFormWithData ==
    /\ MatcherIdle
    /\ \E data \in DataDicts : \E outcomes \in [1..Len(data) -> FillOutcomes] :
          call' = [fn |-> "_auto_fill_form_with_data",
                   arg |-> [data |-> data, outcomes |-> outcomes],
                   result |-> AutoFillFormWithData(current_page_state, data, outcomes)]

\* A BPMAgentService whose extracted data and page state are given.
InitMatcher ==
    /\ InitCommon
    /\ extracted_data \in DataDicts
    /\ current_page_state \in PageStates
    /\ transport = "none"
    /\ active_connections = NoConnections
    /\ wsPc = "library"
    /\ session = SessionRow
    /\ args = None

NextMatcher ==
    \/ MatcherMatchFieldValue
    \/ MatcherFindMatchingElement
    \/ MatcherAutoFillForm
    \/ MatcherAutoFillFormWithData

SpecMatcher == InitMatcher /\ [][NextMatcher]_vars

\* ------------------------------------------ _determine_page_type alone
\* Words of the markup handed to _determine_page_type.
HtmlWords == {"Login", "password", "Success", "complete", "error", "failed", "form"}

\* Element lists handed to it: the prefixes of this list.
ElementSample ==
    <<El("input", "a", "e1"), El("select", "b", "e2"), El("button", "submit", "e3"),
      El("textarea", "c", "e4"), El("checkbox", "d", "e5"), El("input", "e", "e6")>>
ElementLists == {SubSeq(ElementSample, 1, n) : n \in 0..Len(ElementSample)}

\* _determine_page_type(html_content, elements)
BrowserDeterminePageType ==
    /\ wsPc = "browser"
    /\ call' = [fn |-> "_determine_page_type", arg |-> None,
                result |-> DeterminePageType(args.html_content, args.elements)]
    /\ UNCHANGED wsVars
    /\ UNCHANGED genVars
    /\ UNCHANGED driverVars
    /\ UNCHANGED <<turnNo, session, cleanupCalls, closeCalls, ocr_result,
                   ocr_response>>
    /\ UNCHANGED apiVars

\* A browser service about to classify the markup and elements of a page.
InitBrowser ==
    /\ InitCommon
    /\ extracted_data = <<>>
    /\ current_page_state = NoPage
    /\ transport = "none"
    /\ active_connections = NoConnections
    /\ wsPc = "browser"
    /\ session = SessionRow
    /\ args \in [html_content : SUBSET HtmlWords, elements : ElementLists]

NextBrowser == BrowserDeterminePageType

SpecBrowser == InitBrowser /\ [][NextBrowser]_vars

\* ------------------------------------------------- SmartValidationService
\* Values of a form_data entry decoded from JSON.  A str is a text (s) or a
\* decimal numeral written with dp decimals (s = "numeral", cents its value
\* in hundredths); a float has the value cents / 100; null is None.  Absent
\* marks a key that is not in the dict.
Text(s) == [t |-> "str", s |-> s, cents |-> 0, dp |-> 0]
Numeral(cents, dp) == [t |-> "str", s |-> "numeral", cents |-> cents, dp |-> dp]
Float(cents) == [t |-> "float", s |-> "", cents |-> cents, dp |-> 0]
Null == [t |-> "null", s |-> "", cents |-> 0, dp |-> 0]
Absent == [t |-> "absent", s |-> "", cents |-> 0, dp |-> 0]

\* The keys of the form data, in the insertion order of the dict.
FormFields == <<"phone", "email", "total_amount", "tax_amount", "net_amount",
                "seller_name", "buyer_name">>

\* The form data given to validate_form_data: for each key, its value or
\* Absent.
FormInputs ==
    [phone : {Absent, Text("13800138000"), Text("23800138000"),
              Text("138-0013-8000"), Text("")},
     email : {Absent, Text("a@qq.com"), Null},
     total_amount : {Absent, Numeral(113000, 2), Float(113000)},
     tax_amount : {Absent, Numeral(13000, 2), Float(13000), Float(0)},
     net_amount : {Absent, Numeral(100000, 2), Numeral(90000, 2), Float(90000),
                   Float(0)},
     seller_name : {Absent, Text("acme"), Null},
     buyer_name : {Absent, Text("acme"), Text("bolt")}]

\* "key in form_data"
HasKey(form_data, key) == form_data[key] # Absent

\* form_data.get(key): None for a key that is not in the dict.
Get(form_data, key) == IF HasKey(form_data, key) THEN form_data[key] ELSE Null

\* form_data.get(key, ''): the empty string for a key that is not in the dict.
GetOrEmpty(form_data, key) ==
    IF HasKey(form_data, key) THEN form_data[key] ELSE Text("")

\* bool(value)
Truthy(v) ==
    CASE v.t = "str" -> v.s # ""
      [] v.t = "float" -> v.cents # 0
      [] OTHER -> FALSE

\* str(value) of a float: repr gives one decimal to a whole number or a
\* multiple of a tenth, two decimals otherwise.
FloatDp(cents) == IF cents % 10 # 0 THEN 2 ELSE 1

\* str(value).strip()
StrOf(v) ==
    CASE v.t = "str" -> v
      [] v.t = "float" -> Numeral(v.cents, FloatDp(v.cents))
      [] OTHER -> Text("None")

\* ValidationResult; rule is the business rule the message names.
VResult(field, validation_type, severity, is_valid, suggested_value) ==
    [field |-> field, validation_type |-> validation_type, severity |-> severity,
     is_valid |-> is_valid, suggested_value |-> suggested_value, rule |-> None]

\* The keywords of _infer_field_type and _is_required_field that occur in
\* each key.
KeywordsIn(field_name) ==
    CASE field_name = "phone" -> {"phone"}
      [] field_name = "email" -> {"email", "mail"}
      [] field_name \in {"total_amount", "tax_amount", "net_amount"} -> {"amount"}
      [] field_name \in {"seller_name", "buyer_name"} -> {"name"}

\* SmartValidationService._infer_field_type
InferFieldType(field_name) ==
    LET k == KeywordsIn(field_name)
    IN IF k \cap {"email", "mail", "youxiang"} # {} THEN "email"
       ELSE IF k \cap {"phone", "tel", "mobile", "dianhua", "shouji"} # {} THEN "phone"
       ELSE IF k \cap {"id", "card", "shenfenzheng"} # {} THEN "id_card"
       ELSE IF k \cap {"amount", "money", "price", "jine", "jiage"} # {} THEN "amount"
       ELSE IF k \cap {"date", "time", "riqi", "shijian"} # {} THEN "date"
       ELSE "text"

\* SmartValidationService._is_required_field
IsRequiredField(field_name) ==
    KeywordsIn(field_name)
       \cap {"name", "email", "phone", "amount", "date", "xingming", "youxiang",
              "dianhua", "jine", "riqi"} # {}

\* re.match of the pattern of the field type on the text.
MatchesPattern(field_type, text) ==
    CASE field_type = "phone" -> text.s = "13800138000"
      [] field_type = "email" -> text.s = "a@qq.com"
      [] field_type = "amount" -> text.s = "numeral" /\ text.cents >= 0 /\ text.dp \in 1..2
      [] OTHER -> FALSE

\* re.sub(r'\D', '', value)
DigitsOnly(text) == IF text.s = "138-0013-8000" THEN "13800138000" ELSE text.s

ElevenDigits == {"13800138000", "23800138000"}
StartsWithOne == {"13800138000", "138-0013-8000"}

\* SmartValidationService._suggest_format_correction
SuggestFormatCorrection(field_type, text) ==
    IF field_type = "phone"
    THEN IF DigitsOnly(text) \in ElevenDigits /\ DigitsOnly(text) \in StartsWithOne
         THEN Text(DigitsOnly(text)) ELSE Null
    ELSE IF field_type = "amount"
    THEN IF text.s = "numeral" THEN text ELSE Null
    ELSE Null

\* SmartValidationService._validate_format: no result for a type without a
\* rule.
ValidateFormat(field_name, field_value) ==
    LET field_type == InferFieldType(field_name)
        value_str == StrOf(field_value)
    IN IF field_type \notin {"email", "phone", "id_card", "amount", "date"} THEN <<>>
       ELSE IF ~MatchesPattern(field_type, value_str)
       THEN <<VResult(field_name, "format", "error", FALSE,
                      SuggestFormatCorrection(field_type, value_str))>>
       ELSE <<VResult(field_name, "format", "info", TRUE, Null)>>

\* Decimal('999999999.99'), whole units: an amount is above it exactly
\* when its whole units are.
MaxAmountUnits == 999999999

\* SmartValidationService._validate_range on the amounts; no key of
\* FormFields is of type date.
ValidateRange(field_name, field_value) ==
    IF InferFieldType(field_name) # "amount" THEN <<>>
    ELSE IF StrOf(field_value).s # "numeral"
    THEN <<VResult(field_name, "range", "error", FALSE, Null)>>
    ELSE IF StrOf(field_value).cents < 0
    THEN <<VResult(field_name, "range", "error", FALSE, Numeral(0, 2))>>
    ELSE IF StrOf(field_value).cents \div 100 > MaxAmountUnits
    THEN <<VResult(field_name, "range", "warning", TRUE, Null)>>
    ELSE <<>>

\* f'1{value_str[1:]}'
ReplaceFirstDigitWithOne(s) == IF s = "23800138000" THEN "13800138000" ELSE s

\* The minimal number of decimals of a value in hundredths.
MinimalDp(cents) == IF cents % 10 # 0 THEN 2 ELSE IF cents % 100 # 0 THEN 1 ELSE 0

\* SmartValidationService._generate_smart_suggestion.  The domain of the
\* one e-mail address is a common domain itself, which gives no suggestion.
GenerateSmartSuggestion(field_name, field_value) ==
    LET field_type == InferFieldType(field_name)
        value_str == StrOf(field_value)
    IN IF field_type = "phone" /\ value_str.s \in ElevenDigits
       THEN IF value_str.s \notin StartsWithOne
            THEN <<VResult(field_name, "format", "warning", TRUE,
                           Text(ReplaceFirstDigitWithOne(value_str.s)))>>
            ELSE <<>>
       ELSE IF field_type = "amount" /\ value_str.s = "numeral"
       THEN IF value_str.dp = 0 /\ value_str.cents > 100000
            THEN <<VResult(field_name, "format", "info", TRUE,
                           Numeral(value_str.cents \div 100,
                                   MinimalDp(value_str.cents \div 100)))>>
            ELSE <<>>
       ELSE <<>>

\* SmartValidationService.validate_field
ValidateField(field_name, field_value) ==
    IF IsRequiredField(field_name) /\ ~Truthy(field_value)
    THEN <<VResult(field_name, "required", "error", FALSE, Null)>>
    ELSE IF ~Truthy(field_value) THEN <<>>
    ELSE ValidateFormat(field_name, field_value)
            \o ValidateRange(field_name, field_value)
            \o GenerateSmartSuggestion(field_name, field_value)

\* The loop over form_data.items() of validate_form_data, from key i on.
RECURSIVE ValidateFields(_, _)
ValidateFields(form_data, i) ==
    IF i > Len(FormFields) THEN <<>>
    ELSE (IF HasKey(form_data, FormFields[i])
          THEN ValidateField(FormFields[i], form_data[FormFields[i]])
          ELSE <<>>) \o ValidateFields(form_data, i + 1)

\* SmartValidationService._validate_cross_fields.  .strip() is called on
\* the values of email and phone, and raises AttributeError on a value that
\* is not a str.  start_date and end_date are not keys of FormFields.
ValidateCrossFields(form_data) ==
    IF HasKey(form_data, "email") \/ HasKey(form_data, "phone")
    THEN LET email == GetOrEmpty(form_data, "email")
             phone == GetOrEmpty(form_data, "phone")
         IN IF email.t # "str" \/ phone.t # "str"
            THEN [raised |-> TRUE, results |-> <<>>]
            ELSE [raised |-> FALSE,
                  results |-> IF email.s = "" /\ phone.s = ""
                              THEN <<VResult("contact", "cross_field", "error",
                                             FALSE, Null)>>
                              ELSE <<>>]
    ELSE [raised |-> FALSE, results |-> <<>>]

Abs(n) == IF n < 0 THEN 0 - n ELSE n
Max(a, b) == IF a > b THEN a ELSE b

\* SmartValidationService._validate_invoice_amount_consistency.  Decimal
\* raises InvalidOperation on a text that is no numeral; the rule catches it
\* and returns the results it has.  The difference of two Decimals has the
\* larger number of decimals of the two.
ValidateInvoiceAmountConsistency(data) ==
    LET total_amount == Get(data, "total_amount")
        tax_amount == Get(data, "tax_amount")
        net_amount == Get(data, "net_amount")
        total == StrOf(total_amount)
        tax == StrOf(tax_amount)
        net == StrOf(net_amount)
        calculated_net == Numeral(total.cents - tax.cents, Max(total.dp, tax.dp))
    IN IF ~(Truthy(total_amount) /\ Truthy(tax_amount)) THEN <<>>
       ELSE IF total.s # "numeral" \/ tax.s # "numeral" THEN <<>>
       ELSE IF Truthy(net_amount) /\ net.s # "numeral" THEN <<>>
       ELSE (IF Truthy(net_amount)
             THEN IF Abs(calculated_net.cents - net.cents) > 1
                  THEN <<VResult("amount_consistency", "business", "error", FALSE,
                                 calculated_net)>>
                  ELSE <<>>
             ELSE <<VResult("net_amount", "business", "info", TRUE, calculated_net)>>)
            \o (IF total.cents > 0 /\ tax.cents * 100 > 20 * total.cents
                THEN <<VResult("tax_rate", "business", "warning", TRUE, Null)>>
                ELSE <<>>)

\* SmartValidationService._validate_company_info.  .strip() raises
\* AttributeError on a name that is not a str; the tax ids are not keys of
\* FormFields.
ValidateCompanyInfo(data) ==
    LET seller_name == GetOrEmpty(data, "seller_name")
        buyer_name == GetOrEmpty(data, "buyer_name")
    IN IF seller_name.t # "str" \/ buyer_name.t # "str"
       THEN [raised |-> TRUE, results |-> <<>>]
       ELSE [raised |-> FALSE,
             results |-> IF seller_name.s # "" /\ seller_name = buyer_name
                         THEN <<VResult("company_consistency", "business", "error",
                                        FALSE, Null)>>
                         ELSE <<>>]

\* self.business_rules in insertion order: name and referenced fields.
BusinessRules ==
    <<[name |-> "invoice_amount_consistency",
       fields |-> {"total_amount", "tax_amount", "net_amount"}],
      [name |-> "date_range_check", fields |-> {"invoice_date", "due_date"}],
      [name |-> "company_info_consistency",
       fields |-> {"seller_name", "seller_tax_id", "buyer_name", "buyer_tax_id"}]>>

FormKeys(form_data) == {FormFields[i] : i \in {j \in 1..Len(FormFields) :
                                                 HasKey(form_data, FormFields[j])}}

\* rule_config['rule'](form_data).  invoice_date and due_date are not keys of
\* FormFields, so _validate_date_range is not reached.
RunRule(name, form_data) ==
    CASE name = "invoice_amount_consistency" ->
            [raised |-> FALSE, results |-> ValidateInvoiceAmountConsistency(form_data)]
      [] name = "company_info_consistency" -> ValidateCompanyInfo(form_data)
      [] OTHER -> [raised |-> FALSE, results |-> <<>>]

\* SmartValidationService._validate_business_rules from rule i on: the
\* results, the rules executed and the rules that raised.
RECURSIVE ValidateBusinessRules(_, _)
ValidateBusinessRules(form_data, i) ==
    IF i > Len(BusinessRules)
    THEN [results |-> <<>>, executed |-> {}, raised |-> {}]
    ELSE LET rule == BusinessRules[i]
             rest == ValidateBusinessRules(form_data, i + 1)
             run == RunRule(rule.name, form_data)
         IN IF rule.fields \cap FormKeys(form_data) = {} THEN rest
            ELSE IF run.raised
            THEN [results |-> <<[VResult("business_rule", "business", "warning",
                                         TRUE, Null) EXCEPT !.rule = rule.name]>>
                                 \o rest.results,
                  executed |-> {rule.name} \cup rest.executed,
                  raised |-> {rule.name} \cup rest.raised]
            ELSE [results |-> run.results \o rest.results,
                  executed |-> {rule.name} \cup rest.executed,
                  raised |-> rest.raised]

\* SmartValidationService.validate_form_data: an exception of the cross-field
\* step is caught by the except branch of the whole method, which appends
\* one error result for the field "form".
ValidateFormData(form_data) ==
    LET field_results == ValidateFields(form_data, 1)
        cross == ValidateCrossFields(form_data)
        business == ValidateBusinessRules(form_data, 1)
    IN IF cross.raised
       THEN [results |-> field_results
                            \o <<VResult("form", "business", "error", FALSE, Null)>>,
             executed |-> {}, raised |-> {}]
       ELSE [results |-> field_results \o cross.results \o business.results,
             executed |-> business.executed, raised |-> business.raised]

\* validate_form_data(form_data)
ValidationValidateFormData ==
    /\ wsPc = "validation"
    /\ call' = [fn |-> "validate_form_data", arg |-> None,
                result |-> ValidateFormData(args)]
    /\ UNCHANGED wsVars
    /\ UNCHANGED genVars
    /\ UNCHANGED driverVars
    /\ UNCHANGED <<turnNo, session, cleanupCalls, closeCalls, ocr_result,
                   ocr_response>>
    /\ UNCHANGED apiVars

\* A SmartValidationService about to validate a form.
InitValidation ==
    /\ InitCommon
    /\ extracted_data = <<>>
    /\ current_page_state = NoPage
    /\ transport = "none"
    /\ active_connections = NoConnections
    /\ wsPc = "validation"
    /\ session = SessionRow
    /\ args \in FormInputs

NextValidation == ValidationValidateFormData

SpecValidation == InitValidation /\ [][NextValidation]_vars

\* ------------------------------------------ sessions and a second connection
\* The session table before create_session has inserted the row.
NoSession == [a \in {} |-> None]

\* Everything the REST endpoints of chat.py and the second connection leave
\* alone: the locals of the first connection's handler and its orchestrator.
handlerVars == <<transport, sent, closedSends, openStreams, token, closeCode,
                 message_data, turnNo, cleanupCalls, closeCalls, ocr_result,
                 ocr_response, call, tasks, files, response, args>>

\* POST /chat/sessions.  The UserSession row is built from user_id,
\* session_id, session_name and is_active; target_url of the request body is
\* only echoed in the response.  commit is the outcome of db.commit(): a
\* failure is answered with status 500 and no row is stored.
CreateSession ==
    /\ wsPc = "nosession"
    /\ \E target_url \in {None, TargetUrl}, commit \in BOOLEAN :
          IF commit
          THEN /\ session_data' = target_url
               /\ session' = SessionRow
               /\ is_active' = TRUE
               /\ wsPc' = "handshake"
          ELSE UNCHANGED <<session_data, session, is_active, wsPc>>
    /\ UNCHANGED <<active_connections, sentPeer, peer>>
    /\ UNCHANGED handlerVars
    /\ UNCHANGED genVars
    /\ UNCHANGED driverVars

\* DELETE /chat/sessions/{session_id}.  owner tells whether the row belongs
\* to the caller: if not the answer is 404; otherwise the row is marked
\* inactive and manager.disconnect removes the registry entry.
DeleteSession ==
    /\ wsPc # "nosession"
    /\ \E owner \in BOOLEAN :
          IF owner
          THEN /\ is_active' = FALSE
               /\ active_connections' = ManagerDisconnect(SessionId)
          ELSE UNCHANGED <<is_active, active_connections>>
    /\ UNCHANGED <<session_data, session, wsPc, sentPeer, peer>>
    /\ UNCHANGED handlerVars
    /\ UNCHANGED genVars
    /\ UNCHANGED driverVars

\* websocket_endpoint for a second client that connects with the same
\* session id, up to its receive loop.  A rejection for an unknown session
\* returns before the try block, so the finally block does not run.
PeerHandshake ==
    /\ wsPc # "nosession"
    /\ peer = "none"
    /\ \E t \in HandshakeTokens, found \in BOOLEAN :
          IF t # "valid"
          THEN /\ peer' = "rejected"
               /\ UNCHANGED <<active_connections, sentPeer>>
          ELSE /\ active_connections' = ManagerConnect(SessionId, "ws2")
               /\ IF ~found
                  THEN /\ peer' = "rejected"
                       /\ UNCHANGED sentPeer
                  ELSE /\ peer' = "recv"
                       /\ sentPeer' = Append(sentPeer, WelcomeMessage)
    /\ UNCHANGED <<session_data, session, is_active, wsPc>>
    /\ UNCHANGED handlerVars
    /\ UNCHANGED genVars
    /\ UNCHANGED driverVars

\* The second client goes away without having sent a message: receive_text
\* raises WebSocketDisconnect in its handler, whose finally block cleans up
\* its own orchestrator (no browser was started) and calls
\* manager.disconnect(session_id).
PeerDisconnect ==
    /\ peer = "recv"
    /\ peer' = "done"
    /\ active_connections' = ManagerDisconnect(SessionId)
    /\ UNCHANGED <<session_data, session, is_active, wsPc, sentPeer>>
    /\ UNCHANGED handlerVars
    /\ UNCHANGED genVars
    /\ UNCHANGED driverVars

\* The frames the first connection receives here: the expense-invoice
\* message, without form data.
ApiMessages == {MsgExpenseInvoice}
ApiFrameKeys == {{"message"}}

\* The first connection receives a frame with a message.
ApiReceiveText ==
    /\ turnNo < MaxApiTurns
    /\ WsReceiveText
    /\ message' \in ApiMessages
    /\ message_data' \in ApiFrameKeys

\* No session exists; a client will create one, open a websocket to it, and
\* a second client may open another websocket to the same session id.
InitApi ==
    /\ InitCommon
    /\ extracted_data = <<>>
    /\ current_page_state = NoPage
    /\ transport = "open"
    /\ active_connections = NoConnections
    /\ wsPc = "nosession"
    /\ session = NoSession
    /\ args = None

NextApi ==
    \/ CreateSession
    \/ DeleteSession
    \/ PeerHandshake
    \/ PeerDisconnect
    \/ WsHandshake
    \/ ClientClose
    \/ WsDisconnect
    \/ WsReceiveBadFrame
    \/ WsReceiveEmpty
    \/ ApiReceiveText
    \/ WsClassify
    \/ WsFormFilling
    \/ WsOcrRequest
    \/ WsDataExtraction
    \/ WsStream
    \/ WsAfterComplete
    \/ WsFinish

SpecApi == InitApi /\ [][NextApi]_vars

\* --------------------------------------------------------- upload endpoints
\* The authenticated users (get_current_user) and the path save_uploaded_file
\* gives the file of each Task Record: it is built from a fresh uuid, so no
\* two uploads share a path.
Users == {"u1", "u2"}
FilePath(id) == IF id = 1 THEN "uploads/1" ELSE IF id = 2 THEN "uploads/2" ELSE "uploads/n"

\* The ids not in the task_history table; a new row takes the smallest.
FreeIds == {id \in 1..MaxTasks : tasks[id] = NoRow}
NextId == CHOOSE id \in FreeIds : \A other \in FreeIds : id <= other

Answer(fn, user, file_id, status_code) ==
    [fn |-> fn, user |-> user, file_id |-> file_id, status_code |-> status_code]

\* Every variable the upload endpoints leave alone.
uploadFrame == <<transport, active_connections, wsPc, sent, closedSends,
                 openStreams, token, closeCode, message_data, sentPeer, turnNo,
                 session, cleanupCalls, closeCalls, ocr_result, ocr_response,
                 call, peer, session_data, is_active, args>>

\* POST /upload/file.  outcome "invalid" is a file validate_file or the size
\* test rejects (400); "error" an exception while the file is stored (500,
\* the file is removed again); otherwise the file is saved, the Task Record
\* is inserted with task_type "upload" and, when auto_ocr is set, the OCR
\* outcome is written to the record.
UploadFile ==
    /\ wsPc = "upload"
    /\ FreeIds # {}
    /\ \E user \in Users, outcome \in {"invalid", "error", "ok"},
          auto_ocr \in BOOLEAN, ocr \in {"ok", "fail", "raise"} :
          IF outcome = "invalid"
          THEN /\ response' = Answer("upload_file", user, 0, 400)
               /\ UNCHANGED <<tasks, files>>
          ELSE IF outcome = "error"
          THEN /\ response' = Answer("upload_file", user, 0, 500)
               /\ UNCHANGED <<tasks, files>>
          ELSE /\ files' = files \cup {FilePath(NextId)}
               /\ tasks' = [tasks EXCEPT ![NextId] =
                     [user_id |-> user, task_type |-> "upload",
                      file_path |-> FilePath(NextId),
                      status |-> IF ~auto_ocr THEN "completed"
                                 ELSE IF ocr = "ok" THEN "ocr_completed"
                                 ELSE "ocr_failed",
                      ocr_result |-> IF ~auto_ocr THEN None
                                     ELSE IF ocr = "ok" THEN "invoice"
                                     ELSE "error"]]
               /\ response' = Answer("upload_file", user, NextId, 200)
    /\ UNCHANGED uploadFrame
    /\ UNCHANGED genVars
    /\ UNCHANGED driverVars

\* The Task Record a chat turn inserts (process_user_message_stream): its
\* input_data holds the message and its type, and no file_path.
CreateTaskRecord ==
    /\ wsPc = "upload"
    /\ FreeIds # {}
    /\ \E user \in Users :
          /\ tasks' = [tasks EXCEPT ![NextId] =
                [user_id |-> user, task_type |-> "message_processing",
                 file_path |-> None, status |-> "pending", ocr_result |-> None]]
          /\ response' = Answer("process_user_message_stream", user, NextId, 0)
    /\ UNCHANGED files
    /\ UNCHANGED uploadFrame
    /\ UNCHANGED genVars
    /\ UNCHANGED driverVars

\* The lookup the three file endpoints share: the row whose id is file_id,
\* whatever its user_id and task_type; then the file_path of its input_data,
\* which must name an existing file.
FileFound(file_id) ==
    /\ tasks[file_id] # NoRow
    /\ tasks[file_id].file_path # None
    /\ tasks[file_id].file_path \in files

\* GET /upload/files/{file_id}
GetFileInfo ==
    /\ wsPc = "upload"
    /\ \E user \in Users, file_id \in 1..MaxTasks :
          response' = Answer("get_file_info", user, file_id,
                             IF FileFound(file_id) THEN 200 ELSE 404)
    /\ UNCHANGED <<tasks, files>>
    /\ UNCHANGED uploadFrame
    /\ UNCHANGED genVars
    /\ UNCHANGED driverVars

\* POST /upload/ocr/{file_id}: the OCR outcome is written to the record.  A
\* commit that fails is rolled back; it is answered with 500 only after a
\* successful recognition.
ProcessOcr ==
    /\ wsPc = "upload"
    /\ \E user \in Users, file_id \in 1..MaxTasks,
          ocr \in {"ok", "fail", "raise"}, commit \in BOOLEAN :
          IF ~FileFound(file_id)
          THEN /\ response' = Answer("process_ocr", user, file_id, 404)
               /\ UNCHANGED tasks
          ELSE /\ tasks' = IF commit
                           THEN [tasks EXCEPT
                                   ![file_id].status =
                                      IF ocr = "ok" THEN "ocr_completed" ELSE "ocr_failed",
                                   ![file_id].ocr_result =
                                      IF ocr = "ok" THEN "invoice" ELSE "error"]
                           ELSE tasks
               /\ response' = Answer("process_ocr", user, file_id,
                                     IF ocr = "ok" /\ ~commit THEN 500 ELSE 200)
    /\ UNCHANGED files
    /\ UNCHANGED uploadFrame
    /\ UNCHANGED genVars
    /\ UNCHANGED driverVars

\* DELETE /upload/files/{file_id}: the file is removed, then the record is
\* deleted; an exception in either step is answered with 500.
DeleteFile ==
    /\ wsPc = "upload"
    /\ \E user \in Users, file_id \in 1..MaxTasks,
          outcome \in {"ok", "remove_raises", "commit_raises"} :
          IF ~FileFound(file_id)
          THEN /\ response' = Answer("delete_file", user, file_id, 404)
               /\ UNCHANGED <<tasks, files>>
          ELSE IF outcome = "remove_raises"
          THEN /\ response' = Answer("delete_file", user, file_id, 500)
               /\ UNCHANGED <<tasks, files>>
          ELSE /\ files' = files \ {tasks[file_id].file_path}
               /\ tasks' = IF outcome = "ok"
                           THEN [tasks EXCEPT ![file_id] = NoRow]
                           ELSE tasks
               /\ response' = Answer("delete_file", user, file_id,
                                     IF outcome = "ok" THEN 200 ELSE 500)
    /\ UNCHANGED uploadFrame
    /\ UNCHANGED genVars
    /\ UNCHANGED driverVars

\* An empty task_history table and an empty upload directory.
InitUpload ==
    /\ InitCommon
    /\ extracted_data = <<>>
    /\ current_page_state = NoPage
    /\ transport = "none"
    /\ active_connections = NoConnections
    /\ wsPc = "upload"
    /\ session = SessionRow
    /\ args = None

NextUpload ==
    \/ UploadFile
    \/ CreateTaskRecord
    \/ GetFileInfo
    \/ ProcessOcr
    \/ DeleteFile

SpecUpload == InitUpload /\ [][NextUpload]_vars

\* ------------------------------------------------------------------ claims
HasTargetUrl == "target_url" \in DOMAIN session /\ session["target_url"] # None

AllDelivered == closedSends = 0 /\ Connected(SessionId)

\* C1: when a turn of the websocket is over and every send of the turn was
\* delivered, exactly one terminal event (message_complete or error) was sent
\* for the turn and it is the last event sent.
C1_OneTerminalPerTurn ==
    (wsPc = "recv" /\ turnNo > 0 /\ AllDelivered)
        => (TerminalCount(sent) = 1 /\ IsTerminal(Last(sent)))

ChunkIndexes(s) == {i \in 1..Len(s) : s[i].type = "message_chunk"}

\* The contents of the message_chunk events of s, concatenated in order.
RECURSIVE ChunkText(_)
ChunkText(s) ==
    IF s = <<>> THEN <<>>
    ELSE (IF Head(s).type = "message_chunk" THEN Head(s).content ELSE <<>>)
            \o ChunkText(Tail(s))

\* C2: the events of one call of process_user_message_stream are an optional
\* intent event first, then message_chunk events only, then one terminal
\* event; nothing follows a terminal event, and a finished call has emitted
\* exactly one.
C2_StreamShape ==
    /\ \A i \in 1..Len(yielded) : IsTerminal(yielded[i]) => i = Len(yielded)
    /\ \A i \in 1..Len(yielded) : yielded[i].type = "intent" => i = 1
    /\ \A i \in 1..Len(yielded) :
          yielded[i].type \in {"intent", "message_chunk", "message_complete", "error"}
    /\ ChunkText(yielded) = full_response
    /\ genPc \in {"done", "raised"} => TerminalCount(yielded) = 1

\* C3: once a send has failed after a message_chunk of the turn was delivered,
\* the orchestrator produces no further chunk or complete event for the turn,
\* and no further send is attempted on the closed socket.
C3_AbandonOnClose ==
    [][(wsPc = "stream" /\ closedSends > 0 /\ ChunkIndexes(sent) # {})
          => /\ Len(yielded') > Len(yielded)
                  => Last(yielded').type \notin {"message_chunk", "message_complete"}
             /\ closedSends' = closedSends]_vars

\* C4: the automation driver of a session is closed at most once, however
\* often cleanup is invoked.
C4_ClosedOnce == closeCalls <= 1

\* C5: the websocket handler ends only when the transport has closed.
C5_EndsOnlyOnClose ==
    [][(wsPc # "done" /\ wsPc' = "done") => transport = "closed"]_vars

\* C6: at most one turn's event stream is open at any time, and none is open
\* while the handler reads the next inbound message.
C6_Sequential ==
    /\ Cardinality(openStreams) <= 1
    /\ wsPc = "recv" => openStreams = {}
    /\ wsPc = "stream" => openStreams = {turnNo}

\* A second turn is being streamed after the first one was consumed.
C6_Witness == turnNo = 2 /\ wsPc = "stream" /\ Len(yielded) >= 2

\* C7: a form_filling turn on a session without a target URL ends with a
\* request_url result and makes no automation-driver call.
C7_RequestUrl ==
    (genPc \in {"finishing", "done"} /\ intent_result.intent = "form_filling"
       /\ ~HasTargetUrl)
        => (Last(yielded).kind = "request_url" /\ driverCalls = {})

\* C8: the expense-invoice turn, classified by the keyword fallback with no
\* page loaded and no extracted data, ends with a request_url result, without
\* an automation call and without the language-model conversation stream.
C8_ExpenseTurnRequestsUrl ==
    (genPc = "done" /\ message = MsgExpenseInvoice /\ intent_result.via = "fallback"
       /\ current_page_state = NoPage /\ extracted_data = <<>>)
        => (Last(yielded).kind = "request_url" /\ driverCalls = {} /\ llm = "idle")

\* C9: an exception no branch handles leaves the Task Record failed, and no
\* event of a turn carries raw exception text.
C9_NoRawExceptionText ==
    /\ \A i \in 1..Len(yielded) : ~CarriesRawText(yielded[i])
    /\ \A i \in 1..Len(sent) : ~CarriesRawText(sent[i])
    /\ genPc = "raised" => task_history.status = "failed"

\* C10: when a turn's call has finished, the status of its Task Record is
\* completed or failed.
C10_StatusUpdated ==
    genPc = "done" => task_history.status \in {"completed", "failed"}

\* C11: a question_answering or default-branch turn whose language-model
\* stream failed ends with an error event carrying one of the fixed apology
\* texts, and its Task Record has status failed.
C11_StreamFailureApology ==
    (genPc = "done" /\ ErrText \in Range(full_response))
        => /\ Last(yielded).type = "error"
           /\ Range(Last(yielded).content) \subseteq UserTexts
           /\ task_history.status = "failed"

\* The cause of a rejected handshake, from the token it carried.
RejectionCause ==
    IF token = None THEN "missing_token"
    ELSE IF token = "invalid" THEN "invalid_token"
    ELSE "unknown_session"

\* C12: a rejected handshake is closed with a code that no other cause of
\* rejection uses, no message was sent on it and no turn was processed.
C12_DistinctCloseCodes ==
    wsPc = "rejected"
        => /\ transport = "closed"
           /\ \A other \in {"missing_token", "invalid_token", "unknown_session"} :
                 other # RejectionCause => HandshakeCloseCode(other) # closeCode
           /\ sent = <<>>
           /\ turnNo = 0

\* C13: when a turn of the websocket is over and all its events were
\* delivered, the last event sent carries the validation results and summary
\* if the inbound frame had form_data, and no event of a turn carries a
\* validation if the frame had none.
C13_ValidationAttached ==
    /\ (wsPc = "recv" /\ turnNo > 0 /\ AllDelivered /\ "form_data" \in message_data
          /\ \A i \in 1..Len(sent) : sent[i].type # "error")
          => Last(sent).validation # None
    /\ "form_data" \notin message_data
          => \A i \in 1..Len(sent) : sent[i].validation = None

FillCalls == {"input_text", "select_option"}

\* C14: in a form_filling turn that reached the page analysis, the fields
\* requested from the user are exactly the required fields that are not keys
\* of the extracted data; when there are such fields the turn requests them
\* and makes no fill call, and fill calls are made only when there are none.
C14_RequestExactlyMissing ==
    (genPc \in {"finishing", "done"} /\ intent_result.intent = "form_filling"
       /\ Last(yielded).kind \in {"request_data", "success", "partial_success"})
        => LET missing == {f \in Range(required_fields) : f \notin Keys(extracted_data)}
           IN /\ Last(yielded).kind = "request_data" <=> missing # {}
              /\ Last(yielded).kind = "request_data"
                    => /\ Range(Last(yielded).content) = missing
                       /\ driverCalls \cap FillCalls = {}
              /\ driverCalls \cap FillCalls # {} => missing = {}

\* A form_filling turn after a data_extraction turn stored the name: name and
\* email are required, and only email is requested.
C14_Witness ==
    /\ genPc = "done"
    /\ intent_result.intent = "form_filling"
    /\ Last(yielded).kind = "request_data"
    /\ required_fields = <<"name", "email">>
    /\ "name" \in Keys(extracted_data)
    /\ Last(yielded).content = <<"email">>

\* The dict d holds item.val under item.key.
Holds(d, item) == \E i \in 1..Len(d) : d[i] = item

\* The keys the step from the current state to the next writes, with the
\* values it writes: the data of a successful OCR result, the entities of a
\* classification by the model, the items the regex extractor finds.
C15_Written ==
    IF ocr_result'.given /\ ocr_result' # ocr_result
    THEN IF ocr_result'.present /\ ocr_result'.success THEN ocr_result'.data ELSE <<>>
    ELSE IF genPc = "start" /\ genPc' = "intent" THEN intent_result'.entities
    ELSE IF genPc = "intent" /\ intent_result.intent = "data_extraction"
    THEN ExtractStructuredData(message)
    ELSE <<>>

\* C15: every value produced by a successful OCR result, by the model's
\* entity extraction or by the regex extractor is in the extracted data after
\* the step that produced it (for a key written again, the new value), and
\* the step leaves every other key with the value it had.
C15_LastWriterWins ==
    [][/\ \A i \in 1..Len(C15_Written) : Holds(extracted_data', C15_Written[i])
       /\ \A i \in 1..Len(extracted_data) :
             extracted_data[i].key \notin Keys(C15_Written)
                => Holds(extracted_data', extracted_data[i])]_vars

\* C16: a turn that reached classification has emitted an intent event with
\* an intent of the enum, and an Intent Result whose confidence is below the
\* threshold is the one the keyword fallback computes for the message.  A
\* confidence of zero is below every threshold above zero.
C16_FallbackBelowThreshold ==
    (genPc \in {"intent", "streaming", "complete", "finishing", "done"}
       /\ intent_result.intent # None)
        => /\ yielded[1].type = "intent"
           /\ yielded[1].intent = intent_result.intent
           /\ intent_result.intent \in IntentType
           /\ intent_result.confidence = 0
                 => intent_result = FallbackIntentRecognition(message)

\* C17: the message_chunk events of a call carry, one chunk each and in the
\* order generated, the chunks of the language-model stream, and the full
\* message of a message_complete event is the concatenation, in order, of
\* the contents of the message_chunk events before it; the same holds of the
\* events delivered on the websocket.
C17_CompleteIsConcatenation ==
    /\ Cardinality(ChunkIndexes(yielded)) = Len(full_response)
    /\ \A i \in ChunkIndexes(yielded) :
          yielded[i].content = <<full_response[Cardinality({j \in ChunkIndexes(yielded) : j <= i})]>>
    /\ \A i \in 1..Len(yielded) :
          yielded[i].type = "message_complete"
             => yielded[i].content = ChunkText(SubSeq(yielded, 1, i - 1))
    /\ \A i \in 1..Len(sent) :
          (sent[i].type = "message_complete" /\ AllDelivered)
             => sent[i].content = ChunkText(SubSeq(sent, 1, i - 1))

\* A question_answering turn of two different tokens has completed on the
\* websocket.
C17_Witness ==
    /\ genPc = "done"
    /\ intent_result.intent = "question_answering"
    /\ full_response = <<"t2", "t1">>
    /\ AllDelivered
    /\ Last(sent).type = "message_complete"
    /\ Last(sent).content = <<"t2", "t1">>
    /\ Cardinality(ChunkIndexes(sent)) = 2

\* The synonym-group match of a data key with an element name: the key is a
\* keyword of a group one of whose keywords occurs in the name.
C18_Fuzzy(key, name) ==
    \E g \in 1..Len(FieldMappings) :
       /\ Lower(key) \in FieldMappings[g]
       /\ \E keyword \in FieldMappings[g] : InStr(keyword, Lower(name))

\* C18: _match_field_value returns the value of the key equal to the element
\* name (case-insensitive) whenever there is one, whatever the other keys and
\* their order; when there is none it returns the value of a key matching by
\* synonym group, or nothing when no key matches; auto-fill records no
\* failure for an element without a match.
C18_ExactKeyFirst ==
    /\ call.fn = "_match_field_value"
          => LET exact == {i \in 1..Len(extracted_data) :
                             Lower(extracted_data[i].key) = Lower(call.arg)}
                 fuzzy == {i \in 1..Len(extracted_data) :
                             C18_Fuzzy(extracted_data[i].key, call.arg)}
             IN /\ \A i \in exact : call.result = extracted_data[i].val
                /\ exact = {} => \/ fuzzy = {} /\ call.result = None
                                 \/ \E i \in fuzzy : call.result = extracted_data[i].val
    /\ (call.fn = "_auto_fill_form" /\ current_page_state # NoPage)
          => \A i \in 1..Len(call.result.failed_fields) :
                MatchFieldValue(extracted_data, call.result.failed_fields[i].field) # None

\* The score the claim gives an element name for a field name; a token
\* overlap is a whitespace-split token of the field name occurring in the
\* element name.
C19_Score(field_name, element_name) ==
    IF Lower(field_name) = Lower(element_name) THEN 100
    ELSE IF \/ InStr(Lower(field_name), Lower(element_name))
            \/ InStr(Lower(element_name), Lower(field_name)) THEN 80
    ELSE IF \E word \in SplitWords(Lower(field_name)) : InStr(word, Lower(element_name))
    THEN 60
    ELSE 0

\* C19: _find_matching_element returns the first fillable element, in
\* element order, whose score is the maximum over the fillable elements, and
\* no element when that maximum is not above 50 or no page is loaded.
C19_FirstBestAboveFifty ==
    call.fn = "_find_matching_element"
        => LET els == current_page_state.elements
               fillable == {i \in 1..Len(els) : els[i].element_type \in Fillable}
               score(i) == C19_Score(call.arg, els[i].name)
           IN IF \A i \in fillable : score(i) <= 50
              THEN call.result = 0
              ELSE /\ call.result \in fillable
                   /\ \A j \in fillable : score(j) <= score(call.result)
                   /\ \A j \in fillable : j < call.result => score(j) < score(call.result)

\* "user id" scores 60 on both "user phone" and "username"; the first of the
\* two, the second element of the page, is returned.
C19_Witness ==
    /\ call.fn = "_find_matching_element"
    /\ call.arg = "user id"
    /\ current_page_state.elements = PageLists[1]
    /\ call.result = 2

\* The elements for which _auto_fill_form attempts a fill.
C20_Attempted ==
    {i \in 1..Len(current_page_state.elements) :
        /\ current_page_state.elements[i].element_type \in Fillable
        /\ MatchFieldValue(extracted_data, current_page_state.elements[i].name) # None}

C20_Fields(list) == {list[i].field : i \in 1..Len(list)}

C21_OnePass(ps) ==
    ps # NoPage
        => /\ ps.url = TargetUrl
           /\ Len(ps.element_loads) = Len(ps.elements)
           /\ \A i \in 1..Len(ps.element_loads) : ps.element_loads[i] = ps.load
           /\ \E p \in 1..Len(PageLists) :
                 /\ ps.elements = PageLists[p]
                 /\ ps.title = PageTitles[p]
                 /\ ps.page_type = DeterminePageType(PageHtml[p], PageLists[p])

\* C21: the current page state, when set, comes from one analysis pass over
\* one page load, and a step that changes it replaces it with the state
\* built from a new page load; no step extends or edits the element list of
\* the previous state.
C21_PageStateReplaced ==
    [][/\ C21_OnePass(current_page_state')
       /\ current_page_state' # current_page_state
             => /\ pageLoads' = pageLoads + 1
                /\ current_page_state'.load = pageLoads']_vars

\* A second form_filling turn has replaced the page state of the first one.
C21_Witness ==
    /\ genPc = "done"
    /\ turnNo = 2
    /\ pageLoads = 2
    /\ current_page_state.load = 2
    /\ current_page_state.elements = PageLists[1]

\* C22: _determine_page_type gives login when the lower-cased markup has a
\* login keyword; otherwise success when it has a success keyword; otherwise
\* error when it has an error keyword; otherwise form when more than two
\* elements are inputs, selects or textareas; otherwise unknown.
C22_PagePriority ==
    call.fn = "_determine_page_type"
        => LET has(keywords) == \E w \in args.html_content : \E k \in keywords :
                                   InHtml(k, LowerHtml(w))
               login == has({"login", "denglu", "password", "mima"})
               success == has({"success", "chenggong", "complete", "wancheng"})
               error == has({"error", "cuowu", "fail", "shibai"})
               fillable == Cardinality({i \in 1..Len(args.elements) :
                              args.elements[i].element_type \in Fillable})
           IN /\ login => call.result = "login"
              /\ (~login /\ success) => call.result = "success"
              /\ (~login /\ ~success /\ error) => call.result = "error"
              /\ (~login /\ ~success /\ ~error /\ fillable > 2) => call.result = "form"
              /\ (~login /\ ~success /\ ~error /\ fillable <= 2)
                    => call.result = "unknown"
              /\ ({"Login", "Success"} \subseteq args.html_content)
                    => call.result = "login"
              /\ (args.html_content = {} /\ fillable = 2) => call.result = "unknown"

\* Markup with both "Login" and "Success" has been classified login.
C22_Witness ==
    /\ call.fn = "_determine_page_type"
    /\ args.html_content = {"Login", "Success"}
    /\ Len(args.elements) = 6
    /\ call.result = "login"

\* C23: validate_form_data runs a business rule only when one of its fields
\* is a key of the form data, runs every such rule, after the per-field and
\* cross-field checks, for every form data, and a rule that raises yields
\* exactly one result, of severity warning, naming the rule.
C23_RulesRun ==
    call.fn = "validate_form_data"
        => LET r == call.result
               relevant(i) == BusinessRules[i].fields \cap FormKeys(args) # {}
           IN /\ \A i \in 1..Len(BusinessRules) :
                    BusinessRules[i].name \in r.executed => relevant(i)
              /\ \A i \in 1..Len(BusinessRules) :
                    relevant(i) => BusinessRules[i].name \in r.executed
              /\ \A name \in r.raised :
                    /\ Cardinality({k \in 1..Len(r.results) :
                                      r.results[k].rule = name}) = 1
                    /\ \A k \in 1..Len(r.results) :
                          r.results[k].rule = name => r.results[k].severity = "warning"

\* Results that make the form invalid.
IsError(res) == res.severity = "error" /\ ~res.is_valid

\* C24: for a form of amounts with total_amount and tax_amount, the pass has
\* an amount-consistency error exactly when net_amount is a key and differs
\* from total - tax by more than 0.01, and its suggested value is
\* total - tax; with total 1130.00 and tax 130.00, net 1000.00 gives no
\* error in the pass and net 900.00 exactly one, the amount-consistency
\* error with suggested value "1000.00".
C24_AmountConsistency ==
    (/\ call.fn = "validate_form_data"
     /\ FormKeys(args) \subseteq {"total_amount", "tax_amount", "net_amount"}
     /\ HasKey(args, "total_amount")
     /\ HasKey(args, "tax_amount"))
        => LET results == call.result.results
               errors == {k \in 1..Len(results) : IsError(results[k])}
               consistency == {k \in errors : results[k].field = "amount_consistency"}
               total == args.total_amount.cents
               tax == args.tax_amount.cents
               net == args.net_amount.cents
           IN /\ consistency # {}
                    <=> (HasKey(args, "net_amount") /\ Abs(total - tax - net) > 1)
              /\ \A k \in consistency : results[k].suggested_value.cents = total - tax
              /\ (total = 113000 /\ tax = 13000 /\ HasKey(args, "net_amount")
                    /\ net = 100000) => errors = {}
              /\ (total = 113000 /\ tax = 13000 /\ HasKey(args, "net_amount")
                    /\ net = 90000)
                    => /\ Cardinality(errors) = 1
                       /\ errors = consistency
                       /\ \A k \in consistency :
                             results[k].suggested_value = Numeral(100000, 2)

\* C25: validating phone = "23800138000" yields a result for the field with
\* suggested value "13800138000", and no result for the field that makes
\* the form invalid.
C25_PhoneSuggestion ==
    (call.fn = "validate_form_data" /\ args.phone = Text("23800138000"))
        => LET results == call.result.results
           IN /\ \E k \in 1..Len(results) :
                    /\ results[k].field = "phone"
                    /\ results[k].suggested_value = Text("13800138000")
              /\ \A k \in 1..Len(results) :
                    results[k].field = "phone" => ~IsError(results[k])

\* C26: while the session is active, the events of a turn of the first
\* connection go to its own socket and to no other: the socket of the second
\* connection carries nothing but the welcome message of that connection,
\* and as long as the first socket is open every event the turn has produced
\* so far was delivered on it, after the status message.
C26_OwnSocketOnly ==
    is_active =>
        /\ \A i \in 1..Len(sentPeer) : sentPeer[i] = WelcomeMessage
        /\ (transport = "open" /\ wsPc = "stream")
              => Len(sent) = 1 + Len(yielded)

\* C27: a handshake that is rejected, of the first or of the second
\* connection, leaves the connection registry as it was.
C27_RejectedLeavesRegistry ==
    [][((wsPc # "rejected" /\ wsPc' = "rejected")
          \/ (peer # "rejected" /\ peer' = "rejected"))
        => active_connections' = active_connections]_vars

\* C28: a form_filling turn on a session created with a target URL reads
\* that URL from the session object and calls navigate_to.
C28_NavigatesToCreatedUrl ==
    (genPc \in {"finishing", "done"} /\ intent_result.intent = "form_filling"
       /\ session_data # None)
        => /\ HasTargetUrl
           /\ session["target_url"] = session_data
           /\ "navigate_to" \in driverCalls

\* C29: once delete_session has marked the session inactive, no handshake
\* for it is accepted and no inbound message of it is dispatched.
C29_NoTurnAfterDelete ==
    [][~is_active
        => /\ turnNo' = turnNo
           /\ ~(wsPc = "handshake" /\ wsPc' = "recv")
           /\ ~(peer = "none" /\ peer' = "recv")]_vars

\* The endpoints that take a file id.
FileEndpoints == {"get_file_info", "process_ocr", "delete_file"}

\* The record is one an upload of the user created.
IsUploadOf(row, user) == row.task_type = "upload" /\ row.user_id = user

\* C30: a call of get_file_info, process_ocr or delete_file with a file id
\* whose record is not an upload of the calling user is answered with 404
\* and changes neither the record table nor the stored files.
C30_OwnUploadsOnly ==
    [][(/\ response'.fn \in FileEndpoints
        /\ <<response, tasks, files>>' # <<response, tasks, files>>
        /\ ~IsUploadOf(tasks[response'.file_id], response'.user))
        => (response'.status_code = 404 /\ tasks' = tasks /\ files' = files)]_vars
====
